---- MODULE Spec2Model ----
(***************************************************************************)
(* Model of the JWW decoder (package jww) and of the JWW -> DXF            *)
(* transformer (package dxf) of jww-parser.                                *)
(*                                                                         *)
(* The decoder is modelled at byte level: an input is a sequence of bytes  *)
(* 0..255, a reader is a position in it.  A DWORD is kept as the pair of   *)
(* its two 16-bit halves, so that all 32 bits of the value are kept.  A    *)
(* double is kept as its 8-byte bit pattern.                               *)
(***************************************************************************)
EXTENDS Integers, Sequences, FiniteSets, TLC

\* ------------------------------------------------------------------------
\* Bounds of the model
\* ------------------------------------------------------------------------

\* largest number of records in a generated entity list
MaxRecords == 3

\* largest number of entities of a source document given to the transformer
MaxEntities == 2

\* pen colours of the colour runs: 0..MaxPenColor and the largest WORD
MaxPenColor == 299

\* ------------------------------------------------------------------------
\* Byte reader (src/jww/reader.go)
\* ------------------------------------------------------------------------

Byte == 0..255

Zero8 == <<0, 0, 0, 0, 0, 0, 0, 0>>

DW0 == [lo |-> 0, hi |-> 0]

\* comparisons of a DWORD with a 16-bit constant
DwGE(v, n) == v.hi > 0 \/ v.lo >= n

DwGT(v, n) == v.hi > 0 \/ v.lo > n

NoErr == [kind |-> "nil", ctx |-> <<>>, pid |-> 0, have |-> {}, name |-> <<>>]

IoErr(k) == [kind |-> k, ctx |-> <<>>, pid |-> 0, have |-> {}, name |-> <<>>]

\* fmt.Errorf("<c>: %w", e)
Wrap(c, e) == [e EXCEPT !.ctx = <<c>> \o @]

\* io.ReadFull on a bytes.Reader: all n bytes, or the rest of the input and
\* io.EOF (nothing read) / io.ErrUnexpectedEOF (some bytes read)
ReadFull(d, p, n) ==
  IF p + n <= Len(d)
    THEN [ok |-> TRUE, bytes |-> SubSeq(d, p + 1, p + n), p |-> p + n, err |-> NoErr]
    ELSE [ok |-> FALSE, bytes |-> <<>>, p |-> Len(d),
          err |-> IF p >= Len(d) THEN IoErr("EOF") ELSE IoErr("ErrUnexpectedEOF")]

ReadBYTE(d, p) ==
  LET r == ReadFull(d, p, 1)
  IN [ok |-> r.ok, v |-> IF r.ok THEN r.bytes[1] ELSE 0, p |-> r.p, err |-> r.err]

ReadWORD(d, p) ==
  LET r == ReadFull(d, p, 2)
  IN [ok |-> r.ok, v |-> IF r.ok THEN r.bytes[1] + 256 * r.bytes[2] ELSE 0,
      p |-> r.p, err |-> r.err]

ReadDWORD(d, p) ==
  LET r == ReadFull(d, p, 4)
  IN [ok |-> r.ok,
      v |-> IF r.ok THEN [lo |-> r.bytes[1] + 256 * r.bytes[2],
                          hi |-> r.bytes[3] + 256 * r.bytes[4]]
                    ELSE DW0,
      p |-> r.p, err |-> r.err]

ReadDouble(d, p) ==
  LET r == ReadFull(d, p, 8)
  IN [ok |-> r.ok, v |-> IF r.ok THEN r.bytes ELSE Zero8, p |-> r.p, err |-> r.err]

ReadBytes(d, p, n) == ReadFull(d, p, n)

Skip(d, p, n) == ReadFull(d, p, n)

RECURSIVE TrimRightNul(_)
TrimRightNul(s) ==
  IF s # <<>> /\ s[Len(s)] = 0 THEN TrimRightNul(SubSeq(s, 1, Len(s) - 1)) ELSE s

\* Shift-JIS to UTF-8; the model's strings hold 7-bit bytes only, which the
\* decoder maps to themselves, and trailing NUL bytes are trimmed
shiftJISToUTF8(b) == TrimRightNul(b)

\* the element of a set of one element: Only({e : v \in {x}}) is e with v
\* standing for the value of x, which is computed once, before e
Only(S) == CHOOSE y \in S : TRUE

\* a length that needs more than 16 bits is longer than any input of the model
ReadCString(d, p) ==
  LET Fail(e, q) == [ok |-> FALSE, v |-> <<>>, p |-> q, err |-> e]
      Body(len, q) ==
        IF len = 0 THEN [ok |-> TRUE, v |-> <<>>, p |-> q, err |-> NoErr]
        ELSE Only({IF r.ok THEN [ok |-> TRUE, v |-> shiftJISToUTF8(r.bytes), p |-> r.p, err |-> NoErr]
                       ELSE Fail(r.err, r.p)
                   : r \in {ReadFull(d, q, len)}})
  IN Only({IF ~lenByte.ok THEN Fail(lenByte.err, lenByte.p)
       ELSE IF lenByte.v < 255 THEN Body(lenByte.v, lenByte.p)
       ELSE Only({IF ~lenWord.ok THEN Fail(lenWord.err, lenWord.p)
              ELSE IF lenWord.v < 65535 THEN Body(lenWord.v, lenWord.p)
              ELSE Only({IF ~length.ok THEN Fail(length.err, length.p)
                     ELSE IF length.v.hi = 0 THEN Body(length.v.lo, length.p)
                     ELSE Fail(IF length.p >= Len(d) THEN IoErr("EOF")
                               ELSE IoErr("ErrUnexpectedEOF"), Len(d))
                         : length \in {ReadDWORD(d, lenWord.p)}})
                  : lenWord \in {ReadWORD(d, lenByte.p)}})
           : lenByte \in {ReadBYTE(d, p)}})

\* ------------------------------------------------------------------------
\* Per-class record decoders (package jww, parser)
\* Each returns [ok, ent, p, err, short]: ent is the entity (Nil on error),
\* p the reader position afterwards, short tells that some read of the
\* decoder met the end of the input (whether or not the decoder reported it).
\*
\* Fields of fixed width are read at their offset from the start of the
\* record.  Where the code ignores the error of a read this is what the
\* reader does: a read that does not fit yields zero and leaves the reader
\* at the end of the input, so every later read yields zero as well, and so
\* does the read at the field's offset.
\* ------------------------------------------------------------------------

Nil == [type |-> "nil"]

DecFail(e, q) == [ok |-> FALSE, ent |-> Nil, p |-> q, err |-> e, short |-> TRUE]

parseEntityBase(d, p, version) ==
  LET w == IF DwGE(version, 351) THEN 2 ELSE 0
      Err(r) == DecFail(r.err, r.p)
  IN IF ~ReadDWORD(d, p).ok THEN Err(ReadDWORD(d, p))
     ELSE IF ~ReadBYTE(d, p + 4).ok THEN Err(ReadBYTE(d, p + 4))
     ELSE IF ~ReadWORD(d, p + 5).ok THEN Err(ReadWORD(d, p + 5))
     ELSE IF w = 2 /\ ~ReadWORD(d, p + 7).ok THEN Err(ReadWORD(d, p + 7))
     ELSE IF ~ReadWORD(d, p + 7 + w).ok THEN Err(ReadWORD(d, p + 7 + w))
     ELSE IF ~ReadWORD(d, p + 9 + w).ok THEN Err(ReadWORD(d, p + 9 + w))
     ELSE IF ~ReadWORD(d, p + 11 + w).ok THEN Err(ReadWORD(d, p + 11 + w))
     ELSE [ok |-> TRUE,
           ent |-> [Group |-> ReadDWORD(d, p).v,
                    PenStyle |-> ReadBYTE(d, p + 4).v,
                    PenColor |-> ReadWORD(d, p + 5).v,
                    PenWidth |-> IF w = 2 THEN ReadWORD(d, p + 7).v ELSE 0,
                    Layer |-> ReadWORD(d, p + 7 + w).v,
                    LayerGroup |-> ReadWORD(d, p + 9 + w).v,
                    Flag |-> ReadWORD(d, p + 11 + w).v],
           p |-> p + 13 + w, err |-> NoErr, short |-> FALSE]

parseLine(d, p, version) ==
  Only({IF ~base.ok THEN base
    ELSE [ok |-> TRUE,
          ent |-> [type |-> "Line", Base |-> base.ent,
                   StartX |-> ReadDouble(d, base.p).v,
                   StartY |-> ReadDouble(d, base.p + 8).v,
                   EndX |-> ReadDouble(d, base.p + 16).v,
                   EndY |-> ReadDouble(d, base.p + 24).v],
          p |-> ReadDouble(d, base.p + 24).p, err |-> NoErr,
          short |-> ~ReadDouble(d, base.p + 24).ok]
        : base \in {parseEntityBase(d, p, version)}})

parseArc(d, p, version) ==
  Only({IF ~base.ok THEN base
    ELSE [ok |-> TRUE,
          ent |-> [type |-> "Arc", Base |-> base.ent,
                   CenterX |-> ReadDouble(d, base.p).v,
                   CenterY |-> ReadDouble(d, base.p + 8).v,
                   Radius |-> ReadDouble(d, base.p + 16).v,
                   StartAngle |-> ReadDouble(d, base.p + 24).v,
                   ArcAngle |-> ReadDouble(d, base.p + 32).v,
                   TiltAngle |-> ReadDouble(d, base.p + 40).v,
                   Flatness |-> ReadDouble(d, base.p + 48).v,
                   IsFullCircle |-> ReadDWORD(d, base.p + 56).v # DW0],
          p |-> ReadDWORD(d, base.p + 56).p, err |-> NoErr,
          short |-> ~ReadDWORD(d, base.p + 56).ok]
        : base \in {parseEntityBase(d, p, version)}})

parsePoint(d, p, version) ==
  Only({IF ~base.ok THEN base
    ELSE LET ext == base.ent.PenStyle = 100
             lastRead == IF ext THEN ReadDouble(d, base.p + 32) ELSE ReadDWORD(d, base.p + 16)
         IN [ok |-> TRUE,
             ent |-> [type |-> "Point", Base |-> base.ent,
                      X |-> ReadDouble(d, base.p).v,
                      Y |-> ReadDouble(d, base.p + 8).v,
                      IsTemporary |-> ReadDWORD(d, base.p + 16).v # DW0,
                      Code |-> IF ext THEN ReadDWORD(d, base.p + 20).v ELSE DW0,
                      Angle |-> IF ext THEN ReadDouble(d, base.p + 24).v ELSE Zero8,
                      Scale |-> IF ext THEN ReadDouble(d, base.p + 32).v ELSE Zero8],
             p |-> lastRead.p, err |-> NoErr, short |-> ~lastRead.ok]
        : base \in {parseEntityBase(d, p, version)}})

parseText(d, p, version) ==
  Only({IF ~base.ok THEN base
    ELSE Only({Only({[ok |-> TRUE,
            ent |-> [type |-> "Text", Base |-> base.ent,
                     StartX |-> ReadDouble(d, base.p).v,
                     StartY |-> ReadDouble(d, base.p + 8).v,
                     EndX |-> ReadDouble(d, base.p + 16).v,
                     EndY |-> ReadDouble(d, base.p + 24).v,
                     TextType |-> ReadDWORD(d, base.p + 32).v,
                     SizeX |-> ReadDouble(d, base.p + 36).v,
                     SizeY |-> ReadDouble(d, base.p + 44).v,
                     Spacing |-> ReadDouble(d, base.p + 52).v,
                     Angle |-> ReadDouble(d, base.p + 60).v,
                     FontName |-> fontName.v, Content |-> content.v],
            p |-> content.p, err |-> NoErr,
            short |-> ~fontName.ok \/ ~content.ok]
               : content \in {ReadCString(d, fontName.p)}})
               : fontName \in {ReadCString(d, ReadDouble(d, base.p + 60).p)}})
        : base \in {parseEntityBase(d, p, version)}})

parseSolid(d, p, version) ==
  Only({IF ~base.ok THEN base
    ELSE LET rgb == base.ent.PenColor = 10
             lastRead == IF rgb THEN ReadDWORD(d, base.p + 64) ELSE ReadDouble(d, base.p + 56)
         IN [ok |-> TRUE,
             ent |-> [type |-> "Solid", Base |-> base.ent,
                      Point1X |-> ReadDouble(d, base.p).v,
                      Point1Y |-> ReadDouble(d, base.p + 8).v,
                      Point4X |-> ReadDouble(d, base.p + 16).v,
                      Point4Y |-> ReadDouble(d, base.p + 24).v,
                      Point2X |-> ReadDouble(d, base.p + 32).v,
                      Point2Y |-> ReadDouble(d, base.p + 40).v,
                      Point3X |-> ReadDouble(d, base.p + 48).v,
                      Point3Y |-> ReadDouble(d, base.p + 56).v,
                      Color |-> IF rgb THEN ReadDWORD(d, base.p + 64).v ELSE DW0],
             p |-> lastRead.p, err |-> NoErr, short |-> ~lastRead.ok]
        : base \in {parseEntityBase(d, p, version)}})

parseBlock(d, p, version) ==
  Only({IF ~base.ok THEN base
    ELSE [ok |-> TRUE,
          ent |-> [type |-> "Block", Base |-> base.ent,
                   RefX |-> ReadDouble(d, base.p).v,
                   RefY |-> ReadDouble(d, base.p + 8).v,
                   ScaleX |-> ReadDouble(d, base.p + 16).v,
                   ScaleY |-> ReadDouble(d, base.p + 24).v,
                   Rotation |-> ReadDouble(d, base.p + 32).v,
                   DefNumber |-> ReadDWORD(d, base.p + 40).v],
          p |-> ReadDWORD(d, base.p + 40).p, err |-> NoErr,
          short |-> ~ReadDWORD(d, base.p + 40).ok]
        : base \in {parseEntityBase(d, p, version)}})

\* the members of a dimension of version >= 420 that are read and dropped,
\* their errors ignored: SXF mode, two lines, four points; [p, short]
SxfMembers(d, p, version) ==
  LET LineStep(st) == Only({[p |-> x.p, short |-> st.short \/ x.short]
                            : x \in {parseLine(d, st.p, version)}})
      PointStep(st) == Only({[p |-> x.p, short |-> st.short \/ x.short]
                             : x \in {parsePoint(d, st.p, version)}})
  IN Only({Only({Only({Only({Only({Only({PointStep(p3)
           : p3 \in {PointStep(p2)}})
           : p2 \in {PointStep(p1)}})
           : p1 \in {PointStep(l2)}})
           : l2 \in {LineStep(l1)}})
           : l1 \in {LineStep([p |-> sxf.p, short |-> ~sxf.ok])}})
           : sxf \in {ReadWORD(d, p)}})

\* the dimension is surfaced as its embedded line
parseDimension(d, p, version) ==
  Only({IF ~base.ok THEN base
    ELSE Only({IF ~line.ok THEN line
      ELSE Only({IF ~text.ok THEN text
        ELSE IF DwGE(version, 420)
          THEN Only({[ok |-> TRUE, ent |-> line.ent, p |-> m.p, err |-> NoErr,
                  short |-> line.short \/ text.short \/ m.short]
                     : m \in {SxfMembers(d, text.p, version)}})
          ELSE [ok |-> TRUE, ent |-> line.ent, p |-> text.p, err |-> NoErr,
                short |-> line.short \/ text.short]
                 : text \in {parseText(d, line.p, version)}})
               : line \in {parseLine(d, base.p, version)}})
        : base \in {parseEntityBase(d, p, version)}})

\* ------------------------------------------------------------------------
\* Class names, as the bytes of the stream
\* ------------------------------------------------------------------------

CData == <<67, 68, 97, 116, 97>>

CDataSen == CData \o <<83, 101, 110>>

CDataEnko == CData \o <<69, 110, 107, 111>>

CDataTen == CData \o <<84, 101, 110>>

CDataMoji == CData \o <<77, 111, 106, 105>>

CDataSolid == CData \o <<83, 111, 108, 105, 100>>

CDataBlock == CData \o <<66, 108, 111, 99, 107>>

CDataSunpou == CData \o <<83, 117, 110, 112, 111, 117>>

KnownClasses ==
  {CDataSen, CDataEnko, CDataTen, CDataMoji, CDataSolid, CDataBlock, CDataSunpou}

\* ------------------------------------------------------------------------
\* Object-graph decoder: one record of an entity list
\* ------------------------------------------------------------------------

\* the switch on the class name of parseEntityWithPIDTracking
DispatchSkipsUnknown(d, p, version, className) ==
  CASE className = CDataSen -> parseLine(d, p, version)
    [] className = CDataEnko -> parseArc(d, p, version)
    [] className = CDataTen -> parsePoint(d, p, version)
    [] className = CDataMoji -> parseText(d, p, version)
    [] className = CDataSolid -> parseSolid(d, p, version)
    [] className = CDataBlock -> parseBlock(d, p, version)
    [] className = CDataSunpou -> parseDimension(d, p, version)
    [] OTHER -> [ok |-> TRUE, ent |-> Nil, p |-> p, err |-> NoErr, short |-> FALSE]

Dispatch(d, p, version, className) ==
  CASE className = CDataSen -> parseLine(d, p, version)
    [] className = CDataEnko -> parseArc(d, p, version)
    [] className = CDataTen -> parsePoint(d, p, version)
    [] className = CDataMoji -> parseText(d, p, version)
    [] className = CDataSolid -> parseSolid(d, p, version)
    [] className = CDataBlock -> parseBlock(d, p, version)
    [] className = CDataSunpou -> parseDimension(d, p, version)
    [] OTHER -> [ok |-> FALSE, ent |-> Nil, p |-> p,
                 err |-> [NoErr EXCEPT !.kind = "UnknownEntityClass", !.name = className],
                 short |-> FALSE]

\* the class-reference branch: classPID = tag & 0x7FFF looked up in the registry
ResolveClassRefDefaults(reg, classID) ==
  LET classPID == classID % 32768
  IN IF classPID \in DOMAIN reg
       THEN [ok |-> TRUE, name |-> reg[classPID], err |-> NoErr]
       ELSE [ok |-> TRUE, name |-> CDataSen, err |-> NoErr]

ResolveClassRef(reg, classID) ==
  LET classPID == classID % 32768
  IN IF classPID \in DOMAIN reg
       THEN [ok |-> TRUE, name |-> reg[classPID], err |-> NoErr]
       ELSE [ok |-> FALSE, name |-> <<>>,
             err |-> [NoErr EXCEPT !.kind = "UnknownClassPID", !.pid = classPID,
                                   !.have = DOMAIN reg]]

\* the PID returned for a null marker (tag 0x8000)
NullPIDAdvances(nextPID) == nextPID + 1

NullPID(nextPID) == nextPID

\* Result of one record: [ent, nextPID, err, p, reg, tag, classID, short]
\*   tag is "eof" (no tag could be read), "def", "null" or "ref";
\*   reg is the registry map afterwards (a Go map, mutated in place).
parseEntityWithPIDTracking(d, p, version, pidToClassName, nextPID) ==
  Only({LET Ret(e, n, er, q, r, t, s) ==
          [ent |-> e, nextPID |-> n, err |-> er, p |-> q, reg |-> r, tag |-> t,
           classID |-> classID.v, short |-> s]
        Object(className, q, r, n, t) ==
          Only({IF ~o.ok THEN Ret(Nil, n, o.err, o.p, r, t, o.short)
            ELSE Ret(o.ent, n + 1, NoErr, o.p, r, t, o.short)
                : o \in {Dispatch(d, q, version, className)}})
    IN IF ~classID.ok
         THEN Ret(Nil, nextPID, classID.err, classID.p, pidToClassName, "eof", TRUE)
       ELSE IF classID.v = 65535 THEN
         Only({Only({Only({IF ~schemaVer.ok
             THEN Ret(Nil, nextPID, Wrap("reading schema version", schemaVer.err),
                      schemaVer.p, pidToClassName, "def", TRUE)
           ELSE IF ~nameLen.ok
             THEN Ret(Nil, nextPID, Wrap("reading class name length", nameLen.err),
                      nameLen.p, pidToClassName, "def", TRUE)
           ELSE IF ~nameBuf.ok
             THEN Ret(Nil, nextPID, Wrap("reading class name", nameBuf.err),
                      nameBuf.p, pidToClassName, "def", TRUE)
           ELSE Object(nameBuf.bytes, nameBuf.p,
                       (nextPID :> nameBuf.bytes) @@ pidToClassName, nextPID + 1, "def")
               : nameBuf \in {ReadBytes(d, p + 6, nameLen.v)}})
               : nameLen \in {ReadWORD(d, p + 4)}})
               : schemaVer \in {ReadWORD(d, p + 2)}})
       ELSE IF classID.v = 32768
         THEN Ret(Nil, NullPID(nextPID), NoErr, classID.p, pidToClassName, "null", FALSE)
       ELSE
         Only({IF ~c.ok THEN Ret(Nil, nextPID, c.err, classID.p, pidToClassName, "ref", FALSE)
           ELSE Object(c.name, classID.p, pidToClassName, nextPID, "ref")
               : c \in {ResolveClassRef(pidToClassName, classID.v)}})
        : classID \in {ReadWORD(d, p)}})

\* ------------------------------------------------------------------------
\* Entity list and block-definition list
\* ------------------------------------------------------------------------

\* the loop of parseEntityListWithOffset from record i on
RECURSIVE EntityLoop(_, _, _, _, _, _, _, _)
EntityLoop(d, p, version, reg, nextPID, i, count, entities) ==
  IF i >= count THEN [entities |-> entities, bytesRead |-> 0, err |-> NoErr, p |-> p]
  ELSE Only({IF r.err # NoErr
           THEN [entities |-> entities, bytesRead |-> 0,
                 err |-> Wrap("parsing entity", r.err), p |-> r.p]
           ELSE Only({EntityLoop(d, r.p, version, r.reg, r.nextPID, i + 1, count, es)
                      : es \in {IF r.ent # Nil THEN Append(entities, r.ent) ELSE entities}})
             : r \in {parseEntityWithPIDTracking(d, p, version, reg, nextPID)}})

\* parseEntityListWithOffset with a registry that is not allocated anew:
\* the list starts with the binding and the counter another list left
parseEntityListWithOffsetShared(d, p, version) ==
  Only({IF ~countWord.ok
      THEN [entities |-> <<>>, bytesRead |-> 0,
            err |-> Wrap("reading entity count", countWord.err), p |-> countWord.p]
      ELSE EntityLoop(d, countWord.p, version, (1 :> CDataSen), 3, 0, countWord.v, <<>>)
        : countWord \in {ReadWORD(d, p)}})

\* parseEntityListWithOffset: [entities, bytesRead, err, p]; the registry is
\* allocated empty and the PID counter starts at 1
parseEntityListWithOffset(d, p, version) ==
  Only({IF ~countWord.ok
      THEN [entities |-> <<>>, bytesRead |-> 0,
            err |-> Wrap("reading entity count", countWord.err), p |-> countWord.p]
      ELSE EntityLoop(d, countWord.p, version, <<>>, 1, 0, countWord.v, <<>>)
        : countWord \in {ReadWORD(d, p)}})

\* the name buffer after a ReadBytes whose error is ignored: the bytes that
\* were available, the rest of the buffer left zero
PartialBytes(d, p, n) ==
  [k \in 1..n |-> IF p + k <= Len(d) THEN d[p + k] ELSE 0]

\* the members of a block definition after its EntityBase: number,
\* referenced flag, 4 skipped bytes, name and the nested entity list, every
\* error ignored; [bd, p]
BlockDefBody(d, base, version) ==
  Only({Only({[bd |-> [Base |-> base.ent,
             Number |-> ReadDWORD(d, base.p).v,
             IsReferenced |-> ReadDWORD(d, base.p + 4).v # DW0,
             Name |-> name.v,
             Entities |-> IF nested.err # NoErr THEN <<>> ELSE nested.entities],
     p |-> nested.p]
        : nested \in {parseEntityListWithOffset(d, name.p, version)}})
        : name \in {ReadCString(d, Skip(d, base.p + 8, 4).p)}})

\* parseBlockDefWithTracking: [bd, nextID, err, p, classMap]; bd = Nil when
\* the record yields no definition
parseBlockDefWithTracking(d, p, version, classMap, nextID) ==
  Only({IF ~classID.ok
      THEN [bd |-> Nil, nextID |-> nextID, err |-> classID.err, p |-> classID.p,
            classMap |-> classMap]
    ELSE IF classID.v = 32768
      THEN [bd |-> Nil, nextID |-> nextID, err |-> NoErr, p |-> classID.p,
            classMap |-> classMap]
    ELSE
      Only({LET isDef == classID.v = 65535
            classMap1 == IF isDef
                           THEN (nextID :> PartialBytes(d, nameLen.p, nameLen.v)) @@ classMap
                           ELSE classMap
            nextID1 == IF isDef THEN (nextID + 1) % 65536 ELSE nextID
            p1 == IF isDef THEN ReadBytes(d, nameLen.p, nameLen.v).p ELSE classID.p
        IN Only({IF ~base.ok
               THEN [bd |-> Nil, nextID |-> nextID1, err |-> base.err, p |-> base.p,
                     classMap |-> classMap1]
               ELSE Only({[bd |-> b.bd, nextID |-> nextID1, err |-> NoErr, p |-> b.p,
                       classMap |-> classMap1]
                          : b \in {BlockDefBody(d, base, version)}})
                 : base \in {parseEntityBase(d, p1, version)}})
            : nameLen \in {ReadWORD(d, p + 4)}})
        : classID \in {ReadWORD(d, p)}})

\* the loop of parseBlockDefList from record i on; an error ends the loop
\* and what was decoded so far is returned
RECURSIVE BlockDefLoop(_, _, _, _, _, _, _, _)
BlockDefLoop(d, p, version, classMap, nextID, i, count, blockDefs) ==
  IF i >= count THEN blockDefs
  ELSE Only({IF r.err # NoErr THEN blockDefs
         ELSE Only({BlockDefLoop(d, r.p, version, r.classMap, r.nextID, i + 1, count, bds)
                    : bds \in {IF r.bd # Nil THEN Append(blockDefs, r.bd) ELSE blockDefs}})
             : r \in {parseBlockDefWithTracking(d, p, version, classMap, nextID)}})

\* parseBlockDefList: [blockDefs, err]
parseBlockDefList(d, p, version) ==
  Only({IF ~count.ok
      THEN [blockDefs |-> <<>>, err |-> Wrap("reading block def count", count.err)]
    ELSE IF DwGT(count.v, 10000) THEN [blockDefs |-> <<>>, err |-> NoErr]
    ELSE [blockDefs |-> BlockDefLoop(d, count.p, version, <<>>, 1, 0, count.v.lo, <<>>),
          err |-> NoErr]
        : count \in {ReadDWORD(d, p)}})

\* ------------------------------------------------------------------------
\* Parse: signature, fixed prefix, entity-list scan
\* ------------------------------------------------------------------------

Signature == <<74, 119, 119, 68, 97, 116, 97, 46>>

\* len(data) < 8 || string(data[:8]) != "JwwData."
InvalidSignatureShortOnly(d) == Len(d) < 8

InvalidSignature(d) == Len(d) < 8 \/ SubSeq(d, 1, 8) # Signature

ErrInvalidSignature == IoErr("ErrInvalidSignature")

NumGroups == 16

NumLayers == 16

\* bytes of one layer-group record: state, write layer, scale, protect and
\* 16 layers of state and protect
GroupBytes == 4 + 4 + 8 + 4 + NumLayers * 8

\* The 16 layer groups read from position p0 with every read error ignored:
\* a field that does not fit in the input is left zero, and so is every
\* field after it (a failed read leaves the reader at the end of the input).
ReadLayerGroups(d, p0) ==
  [g \in 0..(NumGroups - 1) |->
     LET b == p0 + GroupBytes * g
     IN [State |-> ReadDWORD(d, b).v,
         WriteLayer |-> ReadDWORD(d, b + 4).v,
         Scale |-> ReadDouble(d, b + 8).v,
         Protect |-> ReadDWORD(d, b + 16).v,
         Layers |-> [l \in 0..(NumLayers - 1) |->
                       [State |-> ReadDWORD(d, b + 20 + 8 * l).v,
                        Protect |-> ReadDWORD(d, b + 24 + 8 * l).v,
                        Name |-> <<>>]],
         Name |-> <<>>]]

\* some read of the layer-group region met the end of the input
LayerGroupsShort(d, p0) == p0 + GroupBytes * NumGroups > Len(d)

SetMin(S) == CHOOSE x \in S : \A y \in S : x <= y

\* findEntityListOffset scanning from the first byte
findEntityListOffsetFromStart(d, version) ==
  LET schemaBytes == <<version.lo % 256, version.lo \div 256>>
      Match(i) ==
        /\ d[i + 1] = 255 /\ d[i + 2] = 255
        /\ d[i + 3] = schemaBytes[1] /\ d[i + 4] = schemaBytes[2]
        /\ LET nameLen == d[i + 5] + d[i + 6] * 256
           IN /\ nameLen >= 8 /\ nameLen <= 20 /\ i + 6 + nameLen <= Len(d)
              /\ SubSeq(d, i + 7, i + 11) = CData
  IN Only({IF M = {} THEN -1 ELSE SetMin(M) - 2
           : M \in {{i \in 0..(Len(d) - 21) : Match(i)}}})

findEntityListOffset(d, version) ==
  LET schemaBytes == <<version.lo % 256, version.lo \div 256>>
      Match(i) ==
        /\ d[i + 1] = 255 /\ d[i + 2] = 255
        /\ d[i + 3] = schemaBytes[1] /\ d[i + 4] = schemaBytes[2]
        /\ LET nameLen == d[i + 5] + d[i + 6] * 256
           IN /\ nameLen >= 8 /\ nameLen <= 20 /\ i + 6 + nameLen <= Len(d)
              /\ SubSeq(d, i + 7, i + 11) = CData
  IN Only({IF M = {} THEN -1 ELSE SetMin(M) - 2
           : M \in {{i \in 100..(Len(d) - 21) : Match(i)}}})

\* fmt.Sprintf("%X", n)
RECURSIVE HexUpper(_)
HexUpper(n) ==
  LET c(k) == IF k < 10 THEN 48 + k ELSE 55 + k
  IN IF n < 16 THEN <<c(n)>> ELSE HexUpper(n \div 16) \o <<c(n % 16)>>

\* fmt.Sprintf("%X-%X", g, l)
DefaultLayerName(g, l) == HexUpper(g) \o <<45>> \o HexUpper(l)

\* fmt.Sprintf("Group%X", g)
DefaultGroupName(g) == <<71, 114, 111, 117, 112>> \o HexUpper(g)

parseLayerNames(lgs) ==
  [g \in 0..(NumGroups - 1) |->
     [lgs[g] EXCEPT
        !.Name = IF @ = <<>> THEN DefaultGroupName(g) ELSE @,
        !.Layers = [l \in 0..(NumLayers - 1) |->
                      [@[l] EXCEPT !.Name = IF @ = <<>> THEN DefaultLayerName(g, l) ELSE @]]]]

\* ------------------------------------------------------------------------
\* Inputs of the model: byte streams built from the fields of the format
\* ------------------------------------------------------------------------

U16(n) == <<n % 256, n \div 256>>

U32(n) == U16(n) \o <<0, 0>>

Zeros(n) == [k \in 1..n |-> 0]

\* the double 1.0
One8 == <<0, 0, 0, 0, 0, 0, 240, 63>>

Take(d, n) == SubSeq(d, 1, n)

\* an unknown class whose name has the entity-class prefix
CDataZzz == CData \o <<90, 122, 122>>

GenBase(v, penStyle, penColor) ==
  U32(0) \o <<penStyle>> \o U16(penColor) \o (IF v >= 351 THEN U16(0) ELSE <<>>)
  \o U16(0) \o U16(0) \o U16(0)

GenSen(v) == GenBase(v, 1, 1) \o Zeros(16) \o One8 \o One8

GenTen(v) == GenBase(v, 1, 2) \o Zeros(16) \o U32(1)

GenMoji(v) == GenBase(v, 1, 2) \o Zeros(32) \o U32(0) \o Zeros(32) \o <<0>> \o <<1, 65>>

GenBody(v, cls) ==
  CASE cls = CDataSen -> GenSen(v)
    [] cls = CDataEnko -> GenBase(v, 2, 3) \o Zeros(16) \o One8 \o Zeros(24) \o One8 \o U32(1)
    [] cls = CDataTen -> GenTen(v)
    [] cls = CDataMoji -> GenMoji(v)
    [] cls = CDataSolid -> GenBase(v, 1, 10) \o Zeros(64) \o U32(255)
    [] cls = CDataBlock -> GenBase(v, 1, 1) \o Zeros(40) \o U32(7)
    [] cls = CDataSunpou ->
         GenBase(v, 1, 1) \o GenSen(v) \o GenMoji(v)
         \o (IF v >= 420
               THEN U16(0) \o GenSen(v) \o GenSen(v)
                    \o GenTen(v) \o GenTen(v) \o GenTen(v) \o GenTen(v)
               ELSE <<>>)
    [] OTHER -> <<>>

GenDef(v, cls) == <<255, 255>> \o U16(v) \o U16(Len(cls)) \o cls \o GenBody(v, cls)

GenRef(v, pid, cls) == U16(32768 + pid) \o GenBody(v, cls)

FirstKinds == KnownClasses \cup {CDataZzz}

LaterKinds == {"null", "defTen", "defZzz", "ref1", "ref2", "ref3"}

GenLater(v, first, k) ==
  CASE k = "null" -> <<0, 128>>
    [] k = "defTen" -> GenDef(v, CDataTen)
    [] k = "defZzz" -> GenDef(v, CDataZzz)
    [] k = "ref1" -> GenRef(v, 1, first)
    [] k = "ref2" -> GenRef(v, 2, CDataSen)
    [] k = "ref3" -> GenRef(v, 3, CDataTen)

RECURSIVE GenLaters(_, _, _)
GenLaters(v, first, ks) ==
  IF ks = <<>> THEN <<>> ELSE GenLater(v, first, Head(ks)) \o GenLaters(v, first, Tail(ks))

SeqsUpTo(S, n) == UNION {[1..m -> S] : m \in 0..n}

\* signature, version, memo "X", paper size, write layer group
GenHeader(v) == Signature \o U32(v) \o <<1, 88>> \o U32(0) \o U32(0)

\* bytes of the 16 layer groups when all are present
FullPad == GroupBytes * NumGroups

\* a layer region cut short so that the entity list starts at offset 98
ShortPad == 76

GenTrailer == Zeros(24)

GenFile(v, pad, extra, first, ks) ==
  GenHeader(v) \o Zeros(pad) \o U16(1 + Len(ks) + extra)
  \o GenDef(v, first) \o GenLaters(v, first, ks) \o GenTrailer

Versions == {350, 600}

MainInputs ==
  {GenFile(v, ShortPad, 0, first, ks) :
     v \in Versions, first \in FirstKinds, ks \in SeqsUpTo(LaterKinds, MaxRecords - 1)}

CountInputs ==
  {GenFile(v, ShortPad, 1, first, ks) :
     v \in Versions, first \in FirstKinds, ks \in SeqsUpTo({"null", "ref1"}, 1)}

CutInputs ==
  {LET f == GenFile(v, ShortPad, extra, first, ks) IN Take(f, Len(f) - cut) :
     v \in Versions, extra \in {0, 1}, first \in KnownClasses,
     ks \in SeqsUpTo({"null", "ref1"}, 1), cut \in {24, 26, 40, 60}}

FullInputs ==
  {LET f == GenFile(600, FullPad, 0, first, <<>>) IN Take(f, Len(f) - cut) :
     first \in {CDataSen, CDataTen, CDataZzz}, cut \in {0, 30}}

HeadInputs ==
  {Take(GenFile(600, ShortPad, 0, CDataSen, <<>>), n) :
     n \in {0, 7, 8, 10, 12, 13, 16, 20, 22, 60}}

BadSignatureInputs ==
  {[GenFile(600, ShortPad, 0, CDataSen, <<>>) EXCEPT ![k] = 33] : k \in {1, 8}}

\* files for the bounds of the scan: the first class definition at offset
\* 99, alone and followed by a second one, and files that end 20 and 21
\* bytes after offset 100
ScanInputs ==
  {GenFile(600, ShortPad - 1, 0, CDataSen, ks) : ks \in {<<>>, <<"defTen">>}}
  \cup {Take(GenFile(600, ShortPad, 0, CDataSen, <<>>), n) : n \in {120, 121}}

Inputs ==
  MainInputs \cup CountInputs \cup CutInputs \cup FullInputs \cup HeadInputs
  \cup BadSignatureInputs \cup ScanInputs

\* ------------------------------------------------------------------------
\* Transformer (package dxf, ConvertDocument)
\*
\* The transformer works on values: a float64 is the rational [n, d] (d > 0,
\* lowest terms) or NaN = [n |-> 0, d |-> 0]; an angle in radians is kept as
\* its coefficient of pi, so that pi/2 is 1/2 and radToDeg multiplies by 180;
\* integers are numbers; strings are sequences of code points.
\* ------------------------------------------------------------------------

RECURSIVE Gcd(_, _)
Gcd(a, b) == IF b = 0 THEN a ELSE Gcd(b, a % b)

Abs(n) == IF n < 0 THEN -n ELSE n

NaN == [n |-> 0, d |-> 0]

IsNaN(a) == a.d = 0

Reduce(n, d) ==
  LET g == Gcd(Abs(n), d) IN [n |-> n \div g, d |-> d \div g]

F(n) == [n |-> n, d |-> 1]

FEq(a, b) == ~IsNaN(a) /\ ~IsNaN(b) /\ a.n * b.d = b.n * a.d

FGt(a, b) == ~IsNaN(a) /\ ~IsNaN(b) /\ a.n * b.d > b.n * a.d

FLe(a, b) == ~IsNaN(a) /\ ~IsNaN(b) /\ a.n * b.d <= b.n * a.d

FAdd(a, b) == IF IsNaN(a) \/ IsNaN(b) THEN NaN ELSE Reduce(a.n * b.d + b.n * a.d, a.d * b.d)

FMul(a, b) == IF IsNaN(a) \/ IsNaN(b) THEN NaN ELSE Reduce(a.n * b.n, a.d * b.d)

\* 1.0 / a, for a > 0
FInv(a) == IF IsNaN(a) THEN NaN ELSE Reduce(a.d, a.n)

\* math.Pi / 2 and 2 * math.Pi as coefficients of pi
HalfPi == [n |-> 1, d |-> 2]

TwoPi == F(2)

\* quarter turns of an angle that is a multiple of pi/2
Quarter(a) == ((2 * a.n) \div a.d) % 4

\* math.Cos and math.Sin at the multiples of pi/2
Cos(a) == IF IsNaN(a) THEN NaN ELSE F(<<1, 0, -1, 0>>[Quarter(a) + 1])

Sin(a) == IF IsNaN(a) THEN NaN ELSE F(<<0, 1, 0, -1>>[Quarter(a) + 1])

radToDeg(rad) == FMul(rad, F(180))

\* fmt.Sprintf("%d", n)
RECURSIVE Decimal(_)
Decimal(n) == IF n < 10 THEN <<48 + n>> ELSE Decimal(n \div 10) \o <<48 + (n % 10)>>

\* mapColor that leaves the codes 1..9 as they are
mapColorPlain(jwwColor) ==
  IF jwwColor >= 100 THEN (jwwColor - 100 + 10) % 65536 ELSE jwwColor

\* mapColor without the extended range
mapColorNoExtended(jwwColor) ==
  IF jwwColor <= 9 THEN <<0, 4, 7, 3, 2, 6, 5, 7, 1, 8>>[jwwColor + 1] ELSE jwwColor

mapColor(jwwColor) ==
  CASE jwwColor = 0 -> 0
    [] jwwColor = 1 -> 4
    [] jwwColor = 2 -> 7
    [] jwwColor = 3 -> 3
    [] jwwColor = 4 -> 2
    [] jwwColor = 5 -> 6
    [] jwwColor = 6 -> 5
    [] jwwColor = 7 -> 7
    [] jwwColor = 8 -> 1
    [] jwwColor = 9 -> 8
    [] OTHER -> IF jwwColor >= 100 THEN (jwwColor - 100 + 10) % 65536 ELSE jwwColor

mapLineType(penStyle) ==
  CASE penStyle \in {0, 1} -> "CONTINUOUS"
    [] penStyle = 2 -> "DASHED"
    [] penStyle = 3 -> "DASHDOT"
    [] penStyle = 4 -> "CENTER"
    [] penStyle = 5 -> "DOT"
    [] penStyle = 6 -> "DASHEDX2"
    [] penStyle = 7 -> "DASHDOTX2"
    [] penStyle = 8 -> "CENTERX2"
    [] penStyle = 9 -> "DOTX2"
    [] OTHER -> "CONTINUOUS"

getLayerNameOfGroup(doc, layerGroup, layer) ==
  IF layerGroup < 16 /\ layer < 16 /\ doc.LayerGroups[layerGroup].Name # <<>>
    THEN doc.LayerGroups[layerGroup].Name
    ELSE DefaultLayerName(layerGroup, layer)

getLayerName(doc, layerGroup, layer) ==
  IF layerGroup < 16 /\ layer < 16 /\ doc.LayerGroups[layerGroup].Layers[layer].Name # <<>>
    THEN doc.LayerGroups[layerGroup].Layers[layer].Name
    ELSE DefaultLayerName(layerGroup, layer)

BlockPrefix == <<66, 76, 79, 67, 75, 95>>

\* getBlockName that formats the number with %X
getBlockNameHex(doc, defNumber) ==
  LET hits == {k \in 1..Len(doc.BlockDefs) : doc.BlockDefs[k].Number = defNumber}
  IN IF hits # {} /\ doc.BlockDefs[SetMin(hits)].Name # <<>>
       THEN doc.BlockDefs[SetMin(hits)].Name
       ELSE BlockPrefix \o HexUpper(defNumber)

\* the first definition with the number decides: its name if not empty
getBlockName(doc, defNumber) ==
  LET hits == {k \in 1..Len(doc.BlockDefs) : doc.BlockDefs[k].Number = defNumber}
  IN IF hits # {} /\ doc.BlockDefs[SetMin(hits)].Name # <<>>
       THEN doc.BlockDefs[SetMin(hits)].Name
       ELSE BlockPrefix \o Decimal(defNumber)

\* the layer emitted for (gLay, lay)
convertLayer(doc, gLay, lay) ==
  LET l == doc.LayerGroups[gLay].Layers[lay]
  IN [Name |-> IF l.Name = <<>> THEN DefaultLayerName(gLay, lay) ELSE l.Name,
      Color |-> ((gLay * 16 + lay) % 255) + 1,
      LineType |-> "CONTINUOUS",
      Frozen |-> l.State = 0,
      Locked |-> l.Protect # 0]

\* the inner loop of convertLayers from layer lay on
RECURSIVE LayersOfGroup(_, _, _)
LayersOfGroup(doc, gLay, lay) ==
  IF lay >= 16 THEN <<>>
  ELSE <<convertLayer(doc, gLay, lay)>> \o LayersOfGroup(doc, gLay, lay + 1)

\* the outer loop of convertLayers from group gLay on
RECURSIVE LayersFrom(_, _)
LayersFrom(doc, gLay) ==
  IF gLay >= 16 THEN <<>>
  ELSE LayersOfGroup(doc, gLay, 0) \o LayersFrom(doc, gLay + 1)

convertLayersVisibleOnly(doc) ==
  SelectSeq(LayersFrom(doc, 0), LAMBDA l : ~l.Frozen)

convertLayers(doc) == LayersFrom(doc, 0)

\* the Arc case of convertEntity
convertArcByFlagOnly(v, layerName, color, lineType) ==
  IF v.IsFullCircle
    THEN [type |-> "Circle", Layer |-> layerName, Color |-> color, LineType |-> lineType,
          CenterX |-> v.CenterX, CenterY |-> v.CenterY, Radius |-> v.Radius]
    ELSE [type |-> "Arc", Layer |-> layerName, Color |-> color, LineType |-> lineType,
          CenterX |-> v.CenterX, CenterY |-> v.CenterY, Radius |-> v.Radius,
          StartAngle |-> radToDeg(v.StartAngle),
          EndAngle |-> radToDeg(FAdd(v.StartAngle, v.ArcAngle))]

convertArc(v, layerName, color, lineType) ==
  IF v.IsFullCircle /\ FEq(v.Flatness, F(1))
    THEN [type |-> "Circle", Layer |-> layerName, Color |-> color, LineType |-> lineType,
          CenterX |-> v.CenterX, CenterY |-> v.CenterY, Radius |-> v.Radius]
  ELSE IF ~FEq(v.Flatness, F(1))
    THEN LET swap == FGt(v.Flatness, F(1))
             majorRadius == IF swap THEN FMul(v.Radius, v.Flatness) ELSE v.Radius
             minorRatio == IF swap THEN FInv(v.Flatness) ELSE v.Flatness
             tiltAngle == IF swap THEN FAdd(v.TiltAngle, HalfPi) ELSE v.TiltAngle
         IN [type |-> "Ellipse", Layer |-> layerName, Color |-> color, LineType |-> lineType,
             CenterX |-> v.CenterX, CenterY |-> v.CenterY,
             MajorAxisX |-> FMul(majorRadius, Cos(tiltAngle)),
             MajorAxisY |-> FMul(majorRadius, Sin(tiltAngle)),
             MinorRatio |-> minorRatio,
             StartParam |-> IF v.IsFullCircle THEN F(0) ELSE v.StartAngle,
             EndParam |-> IF v.IsFullCircle THEN TwoPi ELSE FAdd(v.StartAngle, v.ArcAngle)]
  ELSE [type |-> "Arc", Layer |-> layerName, Color |-> color, LineType |-> lineType,
        CenterX |-> v.CenterX, CenterY |-> v.CenterY, Radius |-> v.Radius,
        StartAngle |-> radToDeg(v.StartAngle),
        EndAngle |-> radToDeg(FAdd(v.StartAngle, v.ArcAngle))]

\* the Point case of convertEntity
convertPointKeepsAll(v, layerName, color, lineType) ==
  [type |-> "Point", Layer |-> layerName, Color |-> color, LineType |-> lineType,
   X |-> v.X, Y |-> v.Y]

convertPoint(v, layerName, color, lineType) ==
  IF v.IsTemporary THEN Nil
  ELSE [type |-> "Point", Layer |-> layerName, Color |-> color, LineType |-> lineType,
        X |-> v.X, Y |-> v.Y]

\* convertEntity: the target entity, or Nil when the entity is skipped
convertEntity(e, doc) ==
  LET base == e.Base
      layerName == getLayerName(doc, base.LayerGroup, base.Layer)
      color == mapColor(base.PenColor)
      lineType == mapLineType(base.PenStyle)
  IN CASE e.type = "Line" ->
            [type |-> "Line", Layer |-> layerName, Color |-> color, LineType |-> lineType,
             X1 |-> e.StartX, Y1 |-> e.StartY, X2 |-> e.EndX, Y2 |-> e.EndY]
       [] e.type = "Arc" -> convertArc(e, layerName, color, lineType)
       [] e.type = "Point" -> convertPoint(e, layerName, color, lineType)
       [] e.type = "Text" ->
            [type |-> "Text", Layer |-> layerName, Color |-> color, LineType |-> lineType,
             X |-> e.StartX, Y |-> e.StartY,
             Height |-> IF FLe(e.SizeY, F(0)) THEN [n |-> 5, d |-> 2] ELSE e.SizeY,
             Rotation |-> e.Angle, Content |-> e.Content, Style |-> "STANDARD"]
       [] e.type = "Solid" ->
            [type |-> "Solid", Layer |-> layerName, Color |-> color, LineType |-> lineType,
             X1 |-> e.Point1X, Y1 |-> e.Point1Y, X2 |-> e.Point2X, Y2 |-> e.Point2Y,
             X3 |-> e.Point3X, Y3 |-> e.Point3Y, X4 |-> e.Point4X, Y4 |-> e.Point4Y]
       [] e.type = "Block" ->
            [type |-> "Insert", Layer |-> layerName, Color |-> color, LineType |-> lineType,
             BlockName |-> getBlockName(doc, e.DefNumber),
             X |-> e.RefX, Y |-> e.RefY, ScaleX |-> e.ScaleX, ScaleY |-> e.ScaleY,
             Rotation |-> radToDeg(e.Rotation)]
       [] OTHER -> Nil

\* the loop of convertEntities and of convertBlocks over a source list
RECURSIVE ConvertAll(_, _)
ConvertAll(es, doc) ==
  IF es = <<>> THEN <<>>
  ELSE LET x == convertEntity(Head(es), doc)
       IN (IF x # Nil THEN <<x>> ELSE <<>>) \o ConvertAll(Tail(es), doc)

convertBlocks(doc) ==
  [k \in 1..Len(doc.BlockDefs) |->
     [Name |-> doc.BlockDefs[k].Name, BaseX |-> F(0), BaseY |-> F(0),
      Entities |-> ConvertAll(doc.BlockDefs[k].Entities, doc)]]

\* ------------------------------------------------------------------------
\* The serializer (package dxf, Writer)
\* The output is kept as the sequence of records writeGroupCode wrote: the
\* group code and the value, which is a string of the document (str, code
\* points), a string constant of the code (lit), an int or a float64.
\* ------------------------------------------------------------------------

GStr(code, s) ==
  [code |-> code, kind |-> "string", str |-> s, lit |-> "", int |-> 0, flt |-> F(0)]

GLit(code, l) ==
  [code |-> code, kind |-> "string", str |-> <<>>, lit |-> l, int |-> 0, flt |-> F(0)]

GInt(code, n) ==
  [code |-> code, kind |-> "int", str |-> <<>>, lit |-> "", int |-> n, flt |-> F(0)]

GFlt(code, x) ==
  [code |-> code, kind |-> "float64", str |-> <<>>, lit |-> "", int |-> 0, flt |-> x]

\* NewWriter: the handle counter starts at 1
NewWriter == 1

\* getHandle that does not advance the counter
getHandleStuck(nextHandle) == [handle |-> HexUpper(nextHandle), next |-> nextHandle]

\* getHandle that formats a constant
getHandleConstant(nextHandle) == [handle |-> HexUpper(1), next |-> nextHandle + 1]

\* getHandle: the handle, and the counter afterwards
getHandle(nextHandle) == [handle |-> HexUpper(nextHandle), next |-> nextHandle + 1]

\* unicode.IsPrint, for the code points up to 127
IsPrintASCII(r) == r >= 32 /\ r <= 126

\* fmt.Sprintf("\\U+%04X", r)
EscapeRune(r) ==
  LET hex == HexUpper(r)
  IN <<92, 85, 43>> \o [k \in 1..(4 - Len(hex)) |-> 48] \o hex

RECURSIVE EscapeUnicode(_)
EscapeUnicode(str) ==
  IF str = <<>> THEN <<>>
  ELSE (IF Head(str) > 127 \/ ~IsPrintASCII(Head(str))
          THEN EscapeRune(Head(str)) ELSE <<Head(str)>>)
       \o EscapeUnicode(Tail(str))

\* Entity.GroupCodes, by entity type
GroupCodes(e) ==
  LET Common(name) == <<GLit(0, name), GStr(8, e.Layer), GInt(62, e.Color), GLit(6, e.LineType)>>
  IN CASE e.type = "Line" ->
            Common("LINE") \o <<GFlt(10, e.X1), GFlt(20, e.Y1), GFlt(30, F(0)),
                                GFlt(11, e.X2), GFlt(21, e.Y2), GFlt(31, F(0))>>
       [] e.type = "Circle" ->
            Common("CIRCLE") \o <<GFlt(10, e.CenterX), GFlt(20, e.CenterY), GFlt(30, F(0)),
                                  GFlt(40, e.Radius)>>
       [] e.type = "Arc" ->
            Common("ARC") \o <<GFlt(10, e.CenterX), GFlt(20, e.CenterY), GFlt(30, F(0)),
                               GFlt(40, e.Radius), GFlt(50, e.StartAngle), GFlt(51, e.EndAngle)>>
       [] e.type = "Ellipse" ->
            Common("ELLIPSE") \o <<GFlt(10, e.CenterX), GFlt(20, e.CenterY), GFlt(30, F(0)),
                                   GFlt(11, e.MajorAxisX), GFlt(21, e.MajorAxisY), GFlt(31, F(0)),
                                   GFlt(40, e.MinorRatio), GFlt(41, e.StartParam),
                                   GFlt(42, e.EndParam)>>
       [] e.type = "Point" ->
            Common("POINT") \o <<GFlt(10, e.X), GFlt(20, e.Y), GFlt(30, F(0))>>
       [] e.type = "Text" ->
            <<GLit(0, "TEXT"), GStr(8, EscapeUnicode(e.Layer)), GInt(62, e.Color),
              GLit(6, e.LineType), GFlt(10, e.X), GFlt(20, e.Y), GFlt(30, F(0)),
              GFlt(40, e.Height), GStr(1, EscapeUnicode(e.Content))>>
            \o (IF ~FEq(e.Rotation, F(0)) THEN <<GFlt(50, e.Rotation)>> ELSE <<>>)
            \o (IF e.Style # "" THEN <<GLit(7, e.Style)>> ELSE <<>>)
       [] e.type = "Solid" ->
            Common("SOLID") \o <<GFlt(10, e.X1), GFlt(20, e.Y1), GFlt(30, F(0)),
                                 GFlt(11, e.X2), GFlt(21, e.Y2), GFlt(31, F(0)),
                                 GFlt(12, e.X3), GFlt(22, e.Y3), GFlt(32, F(0)),
                                 GFlt(13, e.X4), GFlt(23, e.Y4), GFlt(33, F(0))>>
       [] e.type = "Insert" ->
            Common("INSERT") \o <<GStr(2, e.BlockName), GFlt(10, e.X), GFlt(20, e.Y),
                                  GFlt(30, F(0)), GFlt(41, e.ScaleX), GFlt(42, e.ScaleY),
                                  GFlt(43, F(1)), GFlt(50, e.Rotation)>>

\* writeEntity
writeEntity(entity) == GroupCodes(entity)

\* the records of the entities of a list, in its order
RECURSIVE EntityRecords(_)
EntityRecords(es) ==
  IF es = <<>> THEN <<>> ELSE writeEntity(Head(es)) \o EntityRecords(Tail(es))

writeSection(name) == <<GLit(0, "SECTION"), GLit(2, name)>>

writeEndSection == <<GLit(0, "ENDSEC")>>

writeHeader ==
  writeSection("HEADER")
  \o <<GLit(9, "$ACADVER"), GLit(1, "AC1015"), GLit(9, "$MEASUREMENT"), GInt(70, 1)>>
  \o writeEndSection

\* one record of the LTYPE table
LinetypeRecord(handle, name, description) ==
  <<GLit(0, "LTYPE"), GStr(5, handle), GLit(2, name), GInt(70, 0), GLit(3, description),
    GInt(72, 65), GInt(73, 0), GFlt(40, F(0))>>

\* the tables return [recs, next]: the records and the handle counter afterwards
writeLinetypeTable(nextHandle) ==
  LET h1 == getHandle(nextHandle)
      h2 == getHandle(h1.next)
      h3 == getHandle(h2.next)
      h4 == getHandle(h3.next)
  IN [recs |-> <<GLit(0, "TABLE"), GLit(2, "LTYPE"), GStr(5, h1.handle), GInt(70, 3)>>
               \o LinetypeRecord(h2.handle, "BYLAYER", "")
               \o LinetypeRecord(h3.handle, "BYBLOCK", "")
               \o LinetypeRecord(h4.handle, "CONTINUOUS", "Solid line")
               \o <<GLit(0, "ENDTAB")>>,
      next |-> h4.next]

\* one record of the LAYER table for a layer of the document
LayerRecord(handle, layer) ==
  <<GLit(0, "LAYER"), GStr(5, handle), GStr(2, EscapeUnicode(layer.Name)),
    GInt(70, (IF layer.Frozen THEN 1 ELSE 0) + (IF layer.Locked THEN 4 ELSE 0)),
    GInt(62, layer.Color), GLit(6, layer.LineType)>>

\* the loop of writeLayerTable over the layers from the first of layers on
RECURSIVE LayerRecords(_, _)
LayerRecords(layers, nextHandle) ==
  IF layers = <<>> THEN [recs |-> <<>>, next |-> nextHandle]
  ELSE Only({Only({[recs |-> LayerRecord(h.handle, Head(layers)) \o rest.recs,
                    next |-> rest.next]
                   : rest \in {LayerRecords(Tail(layers), h.next)}})
             : h \in {getHandle(nextHandle)}})

writeLayerTable(doc, nextHandle) ==
  LET h1 == getHandle(nextHandle)
      h2 == getHandle(h1.next)
      rest == LayerRecords(doc.Layers, h2.next)
  IN [recs |-> <<GLit(0, "TABLE"), GLit(2, "LAYER"), GStr(5, h1.handle),
                 GInt(70, Len(doc.Layers) + 1),
                 GLit(0, "LAYER"), GStr(5, h2.handle), GStr(2, <<48>>), GInt(70, 0),
                 GInt(62, 7), GLit(6, "CONTINUOUS")>>
               \o rest.recs \o <<GLit(0, "ENDTAB")>>,
      next |-> rest.next]

writeStyleTable(nextHandle) ==
  LET h1 == getHandle(nextHandle)
      h2 == getHandle(h1.next)
  IN [recs |-> <<GLit(0, "TABLE"), GLit(2, "STYLE"), GStr(5, h1.handle), GInt(70, 1),
                 GLit(0, "STYLE"), GStr(5, h2.handle), GLit(2, "STANDARD"), GInt(70, 0),
                 GFlt(40, F(0)), GFlt(41, F(1)), GFlt(50, F(0)), GInt(71, 0),
                 GFlt(42, [n |-> 5, d |-> 2]), GLit(3, "txt"), GLit(4, ""),
                 GLit(0, "ENDTAB")>>,
      next |-> h2.next]

\* writeTables with the LAYER table before the LTYPE table
writeTablesLayerFirst(doc, nextHandle) ==
  Only({Only({Only({[recs |-> writeSection("TABLES") \o layer.recs \o ltype.recs \o style.recs
                              \o writeEndSection,
                     next |-> style.next]
                    : style \in {writeStyleTable(ltype.next)}})
              : ltype \in {writeLinetypeTable(layer.next)}})
        : layer \in {writeLayerTable(doc, nextHandle)}})

writeTables(doc, nextHandle) ==
  Only({Only({Only({[recs |-> writeSection("TABLES") \o ltype.recs \o layer.recs \o style.recs
                              \o writeEndSection,
                     next |-> style.next]
                    : style \in {writeStyleTable(layer.next)}})
              : layer \in {writeLayerTable(doc, ltype.next)}})
        : ltype \in {writeLinetypeTable(nextHandle)}})

\* one block of writeBlocks: header, entities, end
BlockRecords(block) ==
  <<GLit(0, "BLOCK"), GStr(8, <<48>>), GStr(2, block.Name), GInt(70, 0),
    GFlt(10, block.BaseX), GFlt(20, block.BaseY), GFlt(30, F(0)), GStr(3, block.Name)>>
  \o EntityRecords(block.Entities)
  \o <<GLit(0, "ENDBLK"), GStr(8, <<48>>)>>

RECURSIVE AllBlockRecords(_)
AllBlockRecords(blocks) ==
  IF blocks = <<>> THEN <<>> ELSE BlockRecords(Head(blocks)) \o AllBlockRecords(Tail(blocks))

writeBlocks(doc) == writeSection("BLOCKS") \o AllBlockRecords(doc.Blocks) \o writeEndSection

writeEntities(doc) == writeSection("ENTITIES") \o EntityRecords(doc.Entities) \o writeEndSection

\* ------------------------------------------------------------------------
\* The target document's entity list (package dxf, Document)
\* A Go slice is kept as its backing array and its length: [arr, len].
\* ------------------------------------------------------------------------

\* ------------------------------------------------------------------------
\* Transformations of target entities (package dxf, transform.go)
\* A composite literal sets the fields it names; the others have their zero
\* value, "" for LineType.
\* ------------------------------------------------------------------------

FSub(a, b) == FAdd(a, FMul(F(-1), b))

\* the angle of angleDeg degrees, as Cos and Sin take it
DegToAngle(angleDeg) == FMul(angleDeg, [n |-> 1, d |-> 180])

\* rotatePoint: the x and the y of the point (x, y) turned about (cx, cy)
RotateX(x, y, angleDeg, cx, cy) ==
  FAdd(FSub(FMul(FSub(x, cx), Cos(DegToAngle(angleDeg))),
            FMul(FSub(y, cy), Sin(DegToAngle(angleDeg)))), cx)

RotateY(x, y, angleDeg, cx, cy) ==
  FAdd(FAdd(FMul(FSub(x, cx), Sin(DegToAngle(angleDeg))),
            FMul(FSub(y, cy), Cos(DegToAngle(angleDeg)))), cy)

\* scalePoint, one coordinate
ScaleAbout(x, factor, c) == FAdd(c, FMul(FSub(x, c), factor))

\* the Translate methods of Line, Circle, Arc, Ellipse, Point, Text, Solid
\* and Insert
Translate(e, dx, dy) ==
  CASE e.type = "Line" ->
         [type |-> "Line", Layer |-> e.Layer, Color |-> e.Color,
          X1 |-> FAdd(e.X1, dx), Y1 |-> FAdd(e.Y1, dy),
          X2 |-> FAdd(e.X2, dx), Y2 |-> FAdd(e.Y2, dy), LineType |-> e.LineType]
    [] e.type = "Circle" ->
         [type |-> "Circle", Layer |-> e.Layer, Color |-> e.Color, LineType |-> "",
          CenterX |-> FAdd(e.CenterX, dx), CenterY |-> FAdd(e.CenterY, dy),
          Radius |-> e.Radius]
    [] e.type = "Arc" ->
         [type |-> "Arc", Layer |-> e.Layer, Color |-> e.Color, LineType |-> "",
          CenterX |-> FAdd(e.CenterX, dx), CenterY |-> FAdd(e.CenterY, dy),
          Radius |-> e.Radius, StartAngle |-> e.StartAngle, EndAngle |-> e.EndAngle]
    [] e.type = "Ellipse" ->
         [type |-> "Ellipse", Layer |-> e.Layer, Color |-> e.Color, LineType |-> "",
          CenterX |-> FAdd(e.CenterX, dx), CenterY |-> FAdd(e.CenterY, dy),
          MajorAxisX |-> e.MajorAxisX, MajorAxisY |-> e.MajorAxisY,
          MinorRatio |-> e.MinorRatio, StartParam |-> e.StartParam,
          EndParam |-> e.EndParam]
    [] e.type = "Point" ->
         [type |-> "Point", Layer |-> e.Layer, Color |-> e.Color, LineType |-> "",
          X |-> FAdd(e.X, dx), Y |-> FAdd(e.Y, dy)]
    [] e.type = "Text" ->
         [type |-> "Text", Layer |-> e.Layer, Color |-> e.Color, LineType |-> "",
          X |-> FAdd(e.X, dx), Y |-> FAdd(e.Y, dy), Height |-> e.Height,
          Rotation |-> e.Rotation, Content |-> e.Content, Style |-> e.Style]
    [] e.type = "Solid" ->
         [type |-> "Solid", Layer |-> e.Layer, Color |-> e.Color, LineType |-> "",
          X1 |-> FAdd(e.X1, dx), Y1 |-> FAdd(e.Y1, dy),
          X2 |-> FAdd(e.X2, dx), Y2 |-> FAdd(e.Y2, dy),
          X3 |-> FAdd(e.X3, dx), Y3 |-> FAdd(e.Y3, dy),
          X4 |-> FAdd(e.X4, dx), Y4 |-> FAdd(e.Y4, dy)]
    [] e.type = "Insert" ->
         [type |-> "Insert", Layer |-> e.Layer, Color |-> e.Color, LineType |-> "",
          BlockName |-> e.BlockName, X |-> FAdd(e.X, dx), Y |-> FAdd(e.Y, dy),
          ScaleX |-> e.ScaleX, ScaleY |-> e.ScaleY, Rotation |-> e.Rotation]

\* the types that have a Rotate method
Rotatable == {"Line", "Text", "Solid", "Insert"}

\* the Rotate methods of Line and Solid (about (cx, cy)) and of Text and
\* Insert (the Rotation field only)
Rotate(e, angleDeg, cx, cy) ==
  CASE e.type = "Line" ->
         [type |-> "Line", Layer |-> e.Layer, Color |-> e.Color,
          X1 |-> RotateX(e.X1, e.Y1, angleDeg, cx, cy),
          Y1 |-> RotateY(e.X1, e.Y1, angleDeg, cx, cy),
          X2 |-> RotateX(e.X2, e.Y2, angleDeg, cx, cy),
          Y2 |-> RotateY(e.X2, e.Y2, angleDeg, cx, cy), LineType |-> e.LineType]
    [] e.type = "Text" ->
         [type |-> "Text", Layer |-> e.Layer, Color |-> e.Color, LineType |-> "",
          X |-> e.X, Y |-> e.Y, Height |-> e.Height,
          Rotation |-> FAdd(e.Rotation, angleDeg), Content |-> e.Content,
          Style |-> e.Style]
    [] e.type = "Solid" ->
         [type |-> "Solid", Layer |-> e.Layer, Color |-> e.Color, LineType |-> "",
          X1 |-> RotateX(e.X1, e.Y1, angleDeg, cx, cy),
          Y1 |-> RotateY(e.X1, e.Y1, angleDeg, cx, cy),
          X2 |-> RotateX(e.X2, e.Y2, angleDeg, cx, cy),
          Y2 |-> RotateY(e.X2, e.Y2, angleDeg, cx, cy),
          X3 |-> RotateX(e.X3, e.Y3, angleDeg, cx, cy),
          Y3 |-> RotateY(e.X3, e.Y3, angleDeg, cx, cy),
          X4 |-> RotateX(e.X4, e.Y4, angleDeg, cx, cy),
          Y4 |-> RotateY(e.X4, e.Y4, angleDeg, cx, cy)]
    [] e.type = "Insert" ->
         [type |-> "Insert", Layer |-> e.Layer, Color |-> e.Color, LineType |-> "",
          BlockName |-> e.BlockName, X |-> e.X, Y |-> e.Y,
          ScaleX |-> e.ScaleX, ScaleY |-> e.ScaleY,
          Rotation |-> FAdd(e.Rotation, angleDeg)]

\* the types that have a Scale method
Scalable == {"Line", "Circle", "Arc", "Ellipse", "Text", "Solid", "Insert"}

\* the types whose Rotate and Scale take a centre
Centred == {"Line", "Solid"}

\* the Scale methods of Line and Solid (from (cx, cy)) and of Circle, Arc,
\* Ellipse, Text and Insert (a size only)
Scale(e, factor, cx, cy) ==
  CASE e.type = "Line" ->
         [type |-> "Line", Layer |-> e.Layer, Color |-> e.Color,
          X1 |-> ScaleAbout(e.X1, factor, cx), Y1 |-> ScaleAbout(e.Y1, factor, cy),
          X2 |-> ScaleAbout(e.X2, factor, cx), Y2 |-> ScaleAbout(e.Y2, factor, cy),
          LineType |-> e.LineType]
    [] e.type = "Circle" ->
         [type |-> "Circle", Layer |-> e.Layer, Color |-> e.Color, LineType |-> "",
          CenterX |-> e.CenterX, CenterY |-> e.CenterY,
          Radius |-> FMul(e.Radius, factor)]
    [] e.type = "Arc" ->
         [type |-> "Arc", Layer |-> e.Layer, Color |-> e.Color, LineType |-> "",
          CenterX |-> e.CenterX, CenterY |-> e.CenterY,
          Radius |-> FMul(e.Radius, factor), StartAngle |-> e.StartAngle,
          EndAngle |-> e.EndAngle]
    [] e.type = "Ellipse" ->
         [type |-> "Ellipse", Layer |-> e.Layer, Color |-> e.Color, LineType |-> "",
          CenterX |-> e.CenterX, CenterY |-> e.CenterY,
          MajorAxisX |-> FMul(e.MajorAxisX, factor),
          MajorAxisY |-> FMul(e.MajorAxisY, factor),
          MinorRatio |-> e.MinorRatio, StartParam |-> e.StartParam,
          EndParam |-> e.EndParam]
    [] e.type = "Text" ->
         [type |-> "Text", Layer |-> e.Layer, Color |-> e.Color, LineType |-> "",
          X |-> e.X, Y |-> e.Y, Height |-> FMul(e.Height, factor),
          Rotation |-> e.Rotation, Content |-> e.Content, Style |-> e.Style]
    [] e.type = "Solid" ->
         [type |-> "Solid", Layer |-> e.Layer, Color |-> e.Color, LineType |-> "",
          X1 |-> ScaleAbout(e.X1, factor, cx), Y1 |-> ScaleAbout(e.Y1, factor, cy),
          X2 |-> ScaleAbout(e.X2, factor, cx), Y2 |-> ScaleAbout(e.Y2, factor, cy),
          X3 |-> ScaleAbout(e.X3, factor, cx), Y3 |-> ScaleAbout(e.Y3, factor, cy),
          X4 |-> ScaleAbout(e.X4, factor, cx), Y4 |-> ScaleAbout(e.Y4, factor, cy)]
    [] e.type = "Insert" ->
         [type |-> "Insert", Layer |-> e.Layer, Color |-> e.Color, LineType |-> "",
          BlockName |-> e.BlockName, X |-> e.X, Y |-> e.Y,
          ScaleX |-> FMul(e.ScaleX, factor), ScaleY |-> FMul(e.ScaleY, factor),
          Rotation |-> e.Rotation]

\* []Entity{}
EmptySlice == [arr |-> <<>>, len |-> 0]

\* the elements of a slice
Elems(s) == SubSeq(s.arr, 1, s.len)

\* append(s, e): in place while the capacity lasts, else into a new array of
\* twice the capacity
AppendSlice(s, e) ==
  IF s.len < Len(s.arr)
    THEN [arr |-> [s.arr EXCEPT ![s.len + 1] = e], len |-> s.len + 1]
    ELSE [arr |-> Elems(s) \o <<e>>
                  \o [k \in 1..((IF s.len = 0 THEN 1 ELSE 2 * s.len) - s.len - 1) |-> Nil],
          len |-> s.len + 1]

\* Document.AddEntity, and Document.Add<Shape> with the entity it builds
AddEntity(d, entity) == [d EXCEPT !.Entities = AppendSlice(@, entity)]

\* RemoveEntity that drops the last entity for any index in range
RemoveEntityLast(d, index) ==
  IF index >= 0 /\ index < d.Entities.len
    THEN [d EXCEPT !.Entities.len = @ - 1]
    ELSE d

\* Document.RemoveEntity: append(d.Entities[:index], d.Entities[index+1:]...)
\* moves the elements after index one place down in the same array
RemoveEntity(d, index) ==
  IF index >= 0 /\ index < d.Entities.len
    THEN [d EXCEPT !.Entities =
            [arr |-> [k \in 1..Len(@.arr) |->
                        IF k > index /\ k < @.len THEN @.arr[k + 1] ELSE @.arr[k]],
             len |-> @.len - 1]]
    ELSE d

\* Document.ClearEntities
ClearEntities(d) == [d EXCEPT !.Entities = EmptySlice]

\* Document.EntityCount
EntityCount(d) == d.Entities.len

\* NewDocument: the layer "0", no entities, no blocks
NewDocument ==
  [Layers |-> <<[Name |-> <<48>>, Color |-> 7, LineType |-> "CONTINUOUS",
                 Frozen |-> FALSE, Locked |-> FALSE]>>,
   Entities |-> EmptySlice, Blocks |-> <<>>]

\* Document.AddLayer
AddLayer(d, name, color, lineType) ==
  [d EXCEPT !.Layers = Append(@, [Name |-> name, Color |-> color, LineType |-> lineType,
                                  Frozen |-> FALSE, Locked |-> FALSE])]

\* ------------------------------------------------------------------------
\* The npm wrapper (class JwwParser of index.ts)
\* A debug log entry is modelled by its level; the onDebug callback and
\* the console are left out.
\* ------------------------------------------------------------------------

\* debugOptions after construction; maxLogEntries and logLevel not given
\* are 0 and "", which "||" treats as undefined
NewDebugOptions == [enabled |-> FALSE, logLevel |-> "", maxLogEntries |-> 0]

\* the stored entries when maxLogEntries is not configured
DefaultMaxLogEntries == 1000

\* levels.indexOf(level)
LevelIndex(level) ==
  CASE level = "debug" -> 0
    [] level = "info" -> 1
    [] level = "warn" -> 2
    [] level = "error" -> 3

\* JwwParser.log: the stored entries after log(level, ...)
log(options, logs, level) ==
  IF ~options.enabled
    THEN logs
    ELSE IF LevelIndex(level) < LevelIndex(IF options.logLevel # "" THEN options.logLevel ELSE "info")
      THEN logs
      ELSE IF Len(logs) + 1 > (IF options.maxLogEntries # 0 THEN options.maxLogEntries
                                                             ELSE DefaultMaxLogEntries)
        THEN Tail(Append(logs, level))
        ELSE Append(logs, level)

\* the log calls of one operation, in order
RECURSIVE logAll(_, _, _)
logAll(options, logs, levels) ==
  IF levels = <<>>
    THEN logs
    ELSE logAll(options, log(options, logs, Head(levels)), Tail(levels))

\* JwwParser.setDebug, the options: a boolean replaces them by
\* { enabled }, an object is merged in (a field not given is "unset", -1)
setDebugOptions(options, arg) ==
  IF arg.boolean
    THEN [NewDebugOptions EXCEPT !.enabled = (arg.enabled = "true")]
    ELSE [enabled |-> IF arg.enabled = "unset" THEN options.enabled ELSE arg.enabled = "true",
          logLevel |-> IF arg.logLevel = "unset" THEN options.logLevel ELSE arg.logLevel,
          maxLogEntries |-> IF arg.maxLogEntries = -1 THEN options.maxLogEntries
                                                     ELSE arg.maxLogEntries]

\* the statistics after construction, resetStats() and dispose()
NewStats == [parseCount |-> 0, totalBytesProcessed |-> 0, parseTimes |-> 0, errorCount |-> 0]

\* parse keeps the last 100 parse times (parseTimes is modelled by its length)
MaxParseTimes == 100

\* ensureInitialized: the error it throws, "none" when it returns
ensureInitialized(isInitialized) ==
  IF isInitialized THEN "none" ELSE "NotInitializedError"

\* the try block of parse, toDxf and toDxfString: the call of the WASM
\* function, the check of result.ok and the update of the statistics.
\* file.result is what the WASM function does with the data: it returns
\* ok: true ("ok"), returns ok: false ("notok") or throws ("throws").
\* shift: parse drops the oldest parse time beyond MaxParseTimes.
\* logged: the levels of the log calls made, the one before the try
\* block included.
TryWasm(stats, file, shift) ==
  IF file.result = "throws"
    THEN [stats |-> stats, thrown |-> "Error", logged |-> <<"info">>]
    ELSE IF file.result = "notok"
      THEN [stats |-> [stats EXCEPT !.errorCount = @ + 1], thrown |-> "ParseError",
            logged |-> <<"info">>]
      ELSE [stats |-> [stats EXCEPT !.parseCount = @ + 1,
                                    !.totalBytesProcessed = @ + file.length,
                                    !.parseTimes = IF shift /\ @ + 1 > MaxParseTimes
                                                     THEN @ ELSE @ + 1],
            thrown |-> "none", logged |-> <<"info", "info">>]

\* the catch block: it counts the error, rethrows a JwwParserError and
\* wraps any other error in a ParseError; logs: parse and toDxf log the
\* failure, toDxfString does not
CatchWasm(r, logs) ==
  IF r.thrown = "none"
    THEN r
    ELSE [stats |-> [r.stats EXCEPT !.errorCount = @ + 1], thrown |-> "ParseError",
          logged |-> IF logs THEN Append(r.logged, "error") ELSE r.logged]

\* JwwParser.parse: the statistics after the call and the error thrown
parse(stats, isInitialized, file, aborted) ==
  IF ensureInitialized(isInitialized) # "none"
    THEN [stats |-> stats, thrown |-> ensureInitialized(isInitialized), logged |-> <<>>]
    ELSE IF aborted
      THEN [stats |-> stats, thrown |-> "JwwParserError", logged |-> <<>>]
      ELSE CatchWasm(TryWasm(stats, file, TRUE), TRUE)

\* JwwParser.toDxf
toDxf(stats, isInitialized, file) ==
  IF ensureInitialized(isInitialized) # "none"
    THEN [stats |-> stats, thrown |-> ensureInitialized(isInitialized), logged |-> <<>>]
    ELSE CatchWasm(TryWasm(stats, file, FALSE), TRUE)

\* JwwParser.toDxfString
toDxfString(stats, isInitialized, file) ==
  IF ensureInitialized(isInitialized) # "none"
    THEN [stats |-> stats, thrown |-> ensureInitialized(isInitialized), logged |-> <<>>]
    ELSE CatchWasm(TryWasm(stats, file, FALSE), FALSE)

\* ------------------------------------------------------------------------
\* State
\* ------------------------------------------------------------------------

VARIABLES
  data,              \* Parse: the bytes read from the io.Reader
  pc,                \* Parse: the step Parse is at
  doc,               \* Parse: the Document under construction
  ret,               \* Parse: what was returned, [returned, nilDoc, doc, err]
  entityListOffset,  \* Parse: result of findEntityListOffset
  pos,               \* entity list: position of reader jr2 in data
  count,             \* entity list: the record count read
  i,                 \* entity list: the loop index
  pidToClassName,    \* entity list: the class registry
  nextPID,           \* entity list: the PID counter
  entities,          \* entity list: the entities decoded so far
  bytesRead,         \* Parse: bytes the entity list reported as consumed
  blockStart,        \* Parse: offset in data where reader jr3 starts
  classDefsRead,     \* history: class definitions read in the list
  instancesDecoded,  \* history: object instances decoded in the list
  nullsSeen,         \* history: null markers met in the list
  instancePIDs,      \* history: the PIDs given to object instances
  last,              \* history: the record decoded last
  shortRead,         \* history: a read of the prefix or of a record met the end
  src,               \* ConvertDocument: the source document
  dxfDoc,            \* ConvertDocument: the target document under construction
  cpc,               \* ConvertDocument: the step it is at
  ci,                \* convertEntities: the number of source entities handled
  lastConv,          \* history: the source entity handled last and its result
  aci,               \* mapColor: the results of its successive applications
  wdoc,              \* serializer: the document of the running call
  wpc,               \* serializer: the step WriteDocument is at
  entry,             \* serializer: the entry point of the running call
  out,               \* serializer: the records the running call has written
  nextHandle,        \* Writer.nextHandle of the Writer that NewWriter returned
  tsHandle,          \* Writer.nextHandle of the Writer local to ToString
  calls,             \* history: the calls of the serializer so far
  startHandle,       \* history: the handle counter when the running call began
  firstOut,          \* history: the first call that returned without error
  document,          \* Document: the document the entity operations act on
  opCount,           \* history: the operations on the document so far
  addedIds,          \* history: the numbers of the entities added
  removedIds,        \* history: the numbers of the entities removed or cleared
  lastOp,            \* history: the operation done last and the list before it
  initialized,       \* JwwParser: this.initialized
  initPromise,       \* JwwParser: this.initPromise, the number of a load, 0 for null
  goInstance,        \* JwwParser: this.goInstance, the number of its load, 0 for null
  wasmInstance,      \* JwwParser: this.wasmInstance, the number of its load, 0 for null
  stats,             \* JwwParser: this.stats
  loads,             \* the loadWasm calls made and where each one is
  initCalls,         \* the init() calls made and where each one is
  goDefined,         \* globalThis.Go is defined
  wasmFunctions,     \* globalThis.jwwParse, jwwToDxf and jwwToDxfString are defined
  epoch,             \* history: the dispose() calls so far
  jwwOps,            \* history: the parse, toDxf and toDxfString calls so far
  failedOps,         \* history: those that threw since the statistics were reset
  lastCall,          \* history: the parse, toDxf or toDxfString call made last
  debugOptions,      \* JwwParser: this.debugOptions
  debugLogs,         \* JwwParser: this.debugLogs, the level of each entry
  setDebugCalls,     \* history: the setDebug() calls so far
  bdData,            \* parseBlockDefList: the bytes behind the Reader
  bdVersion,         \* parseBlockDefList: version
  bdPc,              \* parseBlockDefList: the step it is at
  bdPos,             \* parseBlockDefList: the Reader's position
  bdCount,           \* parseBlockDefList: count
  bdI,               \* parseBlockDefList: i
  classMap,          \* parseBlockDefList: classMap
  nextID,            \* parseBlockDefList: nextID
  blockDefs,         \* parseBlockDefList: blockDefs
  bdLast,            \* history: the record decoded last
  trReceiver,        \* transform: the entity the method was called on, after the call
  trBefore,          \* history: that entity when the method was called
  trResult,          \* transform: the entity the method returned
  trMethod,          \* history: the method called last
  trCount            \* history: the methods called so far

parseVars ==
  <<data, pc, doc, ret, entityListOffset, pos, count, i, pidToClassName, nextPID,
    entities, bytesRead, blockStart, classDefsRead, instancesDecoded, nullsSeen,
    instancePIDs, last, shortRead>>

convVars == <<src, dxfDoc, cpc, ci, lastConv>>

colourVars == <<aci>>

writerVars == <<wdoc, wpc, entry, out, nextHandle, tsHandle, calls, startHandle, firstOut>>

documentVars == <<document, opCount, addedIds, removedIds, lastOp>>

jwwVars ==
  <<initialized, initPromise, goInstance, wasmInstance, stats, loads, initCalls,
    goDefined, wasmFunctions, epoch, jwwOps, failedOps, lastCall,
    debugOptions, debugLogs, setDebugCalls>>

debugVars == <<debugOptions, debugLogs, setDebugCalls>>

bdVars ==
  <<bdData, bdVersion, bdPc, bdPos, bdCount, bdI, classMap, nextID, blockDefs, bdLast>>

transformVars == <<trReceiver, trBefore, trResult, trMethod, trCount>>

restVars == <<colourVars, writerVars, documentVars, jwwVars, bdVars, transformVars>>

vars == <<parseVars, convVars, restVars>>

EmptyDoc ==
  [Version |-> DW0, Memo |-> <<>>, PaperSize |-> DW0, WriteLayerGroup |-> DW0,
   LayerGroups |-> ReadLayerGroups(<<>>, 0), Entities |-> <<>>, BlockDefs |-> <<>>]

NotReturned == [returned |-> FALSE, nilDoc |-> TRUE, doc |-> EmptyDoc, err |-> NoErr]

ReturnErr(e) == [returned |-> TRUE, nilDoc |-> TRUE, doc |-> EmptyDoc, err |-> e]

ReturnDoc(dc) == [returned |-> TRUE, nilDoc |-> FALSE, doc |-> dc, err |-> NoErr]

NoRecord == [tag |-> "none", classID |-> 0, regBefore |-> <<>>, pidBefore |-> 0,
             selected |-> FALSE, className |-> <<>>]

listVars ==
  <<pos, count, i, pidToClassName, nextPID, entities, classDefsRead, instancesDecoded,
    nullsSeen, instancePIDs, last>>

\* a source document with nothing in it, and the target document before
\* ConvertDocument has filled it
EmptySource ==
  [Version |-> 0, Memo |-> <<>>, PaperSize |-> 0, WriteLayerGroup |-> 0,
   LayerGroups |-> <<>>, Entities |-> <<>>, BlockDefs |-> <<>>]

EmptyTarget == [Layers |-> <<>>, Entities |-> <<>>, Blocks |-> <<>>]

NoConv == [has |-> FALSE, src |-> Nil, out |-> Nil]

ConvIdle ==
  /\ src = EmptySource
  /\ dxfDoc = EmptyTarget
  /\ cpc = "idle"
  /\ ci = 0
  /\ lastConv = NoConv

ColourIdle == aci = <<>>

NoOutput == [has |-> FALSE, doc |-> EmptyTarget, out |-> <<>>]

WriterIdle ==
  /\ wdoc = EmptyTarget
  /\ wpc = "idle"
  /\ entry = "none"
  /\ out = <<>>
  /\ nextHandle = NewWriter
  /\ tsHandle = NewWriter
  /\ calls = 0
  /\ startHandle = NewWriter
  /\ firstOut = NoOutput

NoOp == [op |-> "none", index |-> 0, before |-> <<>>]

DocumentIdle ==
  /\ document = NewDocument
  /\ opCount = 0
  /\ addedIds = {}
  /\ removedIds = {}
  /\ lastOp = NoOp

NoCall == [op |-> "none", thrown |-> "none", initCompleted |-> FALSE, counted |-> 0]

\* new JwwParser(), in a process that has not loaded wasm_exec.js
JwwIdle ==
  /\ initialized = FALSE
  /\ initPromise = 0
  /\ goInstance = 0
  /\ wasmInstance = 0
  /\ stats = NewStats
  /\ loads = <<>>
  /\ initCalls = <<>>
  /\ goDefined = FALSE
  /\ wasmFunctions = FALSE
  /\ epoch = 0
  /\ jwwOps = 0
  /\ failedOps = 0
  /\ lastCall = NoCall
  /\ debugOptions = NewDebugOptions
  /\ debugLogs = <<>>
  /\ setDebugCalls = 0

NoBlockDef == [tag |-> -1, p |-> 0, nextID |-> 0, classMap |-> <<>>, bd |-> Nil, err |-> NoErr]

BlockDefsIdle ==
  /\ bdData = <<>>
  /\ bdVersion = DW0
  /\ bdPc = "idle"
  /\ bdPos = 0
  /\ bdCount = 0
  /\ bdI = 0
  /\ classMap = <<>>
  /\ nextID = 1
  /\ blockDefs = <<>>
  /\ bdLast = NoBlockDef

TransformIdle ==
  /\ trReceiver = Nil
  /\ trBefore = Nil
  /\ trResult = Nil
  /\ trMethod = "none"
  /\ trCount = 0

RestIdle ==
  ColourIdle /\ WriterIdle /\ DocumentIdle /\ JwwIdle /\ BlockDefsIdle /\ TransformIdle

ParseStart(d, at) ==
  /\ data = d
  /\ pc = at
  /\ doc = EmptyDoc
  /\ ret = NotReturned
  /\ entityListOffset = -1
  /\ pos = 0
  /\ count = 0
  /\ i = 0
  /\ pidToClassName = <<>>
  /\ nextPID = 1
  /\ entities = <<>>
  /\ bytesRead = 0
  /\ blockStart = 0
  /\ classDefsRead = 0
  /\ instancesDecoded = 0
  /\ nullsSeen = 0
  /\ instancePIDs = {}
  /\ last = NoRecord
  /\ shortRead = FALSE

Init ==
  /\ \E d \in Inputs : ParseStart(d, "signature")
  /\ ConvIdle
  /\ RestIdle

\* ------------------------------------------------------------------------
\* Parse, step by step
\* ------------------------------------------------------------------------

\* Parse: the signature check
ValidateSignature ==
  /\ pc = "signature"
  /\ IF InvalidSignature(data)
       THEN /\ ret' = ReturnErr(ErrInvalidSignature)
            /\ pc' = "done"
       ELSE /\ pc' = "prefix"
            /\ UNCHANGED ret
  /\ UNCHANGED <<data, doc, entityListOffset, bytesRead, blockStart, shortRead>>
  /\ UNCHANGED listVars
  /\ UNCHANGED convVars
  /\ UNCHANGED restVars

\* Parse: version, memo, paper size, write layer group (errors returned) and
\* the 16 layer groups (errors ignored)
ParsePrefix ==
  /\ pc = "prefix"
  /\ \E version \in {ReadDWORD(data, Skip(data, 0, 8).p)} :
     \E memo \in {ReadCString(data, version.p)} :
     \E paperSize \in {ReadDWORD(data, memo.p)} :
     \E writeGLay \in {ReadDWORD(data, paperSize.p)} :
     LET Fail(c, e) == /\ ret' = ReturnErr(Wrap(c, e))
                       /\ pc' = "done"
                       /\ shortRead' = TRUE
                       /\ UNCHANGED doc
     IN IF ~version.ok THEN Fail("reading version", version.err)
        ELSE IF ~memo.ok THEN Fail("reading memo", memo.err)
        ELSE IF ~paperSize.ok THEN Fail("reading paper size", paperSize.err)
        ELSE IF ~writeGLay.ok THEN Fail("reading write layer group", writeGLay.err)
        ELSE /\ doc' = [doc EXCEPT !.Version = version.v, !.Memo = memo.v,
                                   !.PaperSize = paperSize.v,
                                   !.WriteLayerGroup = writeGLay.v,
                                   !.LayerGroups = ReadLayerGroups(data, writeGLay.p)]
             /\ shortRead' = LayerGroupsShort(data, writeGLay.p)
             /\ pc' = "find"
             /\ UNCHANGED ret
  /\ UNCHANGED <<data, entityListOffset, bytesRead, blockStart>>
  /\ UNCHANGED listVars
  /\ UNCHANGED convVars
  /\ UNCHANGED restVars

\* Parse: the scan for the entity list; then parseEntityListWithOffset reads
\* the record count, allocates the registry and starts the PID counter
FindEntityList ==
  /\ pc = "find"
  /\ \E off \in {findEntityListOffset(data, doc.Version)} :
        /\ entityListOffset' = off
        /\ IF off < 0
             THEN /\ ret' = ReturnErr(IoErr("could not find entity list in file"))
                  /\ pc' = "done"
                  /\ UNCHANGED <<pos, count, shortRead>>
             ELSE \E countWord \in {ReadWORD(data, off)} :
               IF ~countWord.ok
               THEN /\ ret' = ReturnErr(Wrap("parsing entity list",
                                             Wrap("reading entity count", countWord.err)))
                    /\ pc' = "done"
                    /\ shortRead' = TRUE
                    /\ UNCHANGED <<pos, count>>
               ELSE /\ pos' = countWord.p
                    /\ count' = countWord.v
                    /\ pc' = "entities"
                    /\ UNCHANGED <<ret, shortRead>>
  /\ i' = 0
  /\ pidToClassName' = <<>>
  /\ nextPID' = 1
  /\ entities' = <<>>
  /\ UNCHANGED <<data, doc, bytesRead, blockStart, classDefsRead, instancesDecoded,
                 nullsSeen, instancePIDs, last>>
  /\ UNCHANGED convVars
  /\ UNCHANGED restVars

\* an iteration that leaves the loop where it is at a null record: neither
\* a byte nor a count is consumed
ParseEntityNullStays ==
  /\ pc = "entities"
  /\ i < count
  /\ IF parseEntityWithPIDTracking(data, pos, doc.Version, pidToClassName, nextPID).tag = "null"
       THEN UNCHANGED vars
       ELSE
           /\ \E r \in {parseEntityWithPIDTracking(data, pos, doc.Version, pidToClassName, nextPID)} :
              LET defRead == r.tag = "def" /\ DOMAIN r.reg # DOMAIN pidToClassName
                  refFound == r.tag = "ref" /\ r.classID % 32768 \in DOMAIN pidToClassName
              IN /\ pos' = r.p
                 /\ pidToClassName' = r.reg
                 /\ last' = [tag |-> r.tag, classID |-> r.classID, regBefore |-> pidToClassName,
                             pidBefore |-> nextPID, selected |-> (defRead \/ refFound),
                             className |-> IF defRead THEN r.reg[nextPID]
                                           ELSE IF refFound THEN pidToClassName[r.classID % 32768]
                                           ELSE <<>>]
                 /\ shortRead' = (shortRead \/ r.short)
                 /\ classDefsRead' = classDefsRead + (IF defRead THEN 1 ELSE 0)
                 /\ nullsSeen' = nullsSeen + (IF r.tag = "null" THEN 1 ELSE 0)
                 /\ IF r.err # NoErr
                      THEN /\ ret' = ReturnErr(Wrap("parsing entity list", Wrap("parsing entity", r.err)))
                           /\ pc' = "done"
                           /\ UNCHANGED <<nextPID, i, entities, instancesDecoded, instancePIDs>>
                      ELSE /\ nextPID' = r.nextPID
                           /\ i' = i + 1
                           /\ entities' = IF r.ent # Nil THEN Append(entities, r.ent) ELSE entities
                           /\ instancesDecoded' = instancesDecoded + (IF r.ent # Nil THEN 1 ELSE 0)
                           /\ instancePIDs' = IF r.ent # Nil THEN instancePIDs \cup {r.nextPID - 1}
                                              ELSE instancePIDs
                           /\ UNCHANGED <<pc, ret>>
           /\ UNCHANGED <<data, doc, entityListOffset, count, bytesRead, blockStart>>
           /\ UNCHANGED convVars
           /\ UNCHANGED restVars

\* one iteration of the loop of parseEntityListWithOffset
ParseEntity ==
  /\ pc = "entities"
  /\ i < count
  /\ \E r \in {parseEntityWithPIDTracking(data, pos, doc.Version, pidToClassName, nextPID)} :
     LET defRead == r.tag = "def" /\ DOMAIN r.reg # DOMAIN pidToClassName
         refFound == r.tag = "ref" /\ r.classID % 32768 \in DOMAIN pidToClassName
     IN /\ pos' = r.p
        /\ pidToClassName' = r.reg
        /\ last' = [tag |-> r.tag, classID |-> r.classID, regBefore |-> pidToClassName,
                    pidBefore |-> nextPID, selected |-> (defRead \/ refFound),
                    className |-> IF defRead THEN r.reg[nextPID]
                                  ELSE IF refFound THEN pidToClassName[r.classID % 32768]
                                  ELSE <<>>]
        /\ shortRead' = (shortRead \/ r.short)
        /\ classDefsRead' = classDefsRead + (IF defRead THEN 1 ELSE 0)
        /\ nullsSeen' = nullsSeen + (IF r.tag = "null" THEN 1 ELSE 0)
        /\ IF r.err # NoErr
             THEN /\ ret' = ReturnErr(Wrap("parsing entity list", Wrap("parsing entity", r.err)))
                  /\ pc' = "done"
                  /\ UNCHANGED <<nextPID, i, entities, instancesDecoded, instancePIDs>>
             ELSE /\ nextPID' = r.nextPID
                  /\ i' = i + 1
                  /\ entities' = IF r.ent # Nil THEN Append(entities, r.ent) ELSE entities
                  /\ instancesDecoded' = instancesDecoded + (IF r.ent # Nil THEN 1 ELSE 0)
                  /\ instancePIDs' = IF r.ent # Nil THEN instancePIDs \cup {r.nextPID - 1}
                                     ELSE instancePIDs
                  /\ UNCHANGED <<pc, ret>>
  /\ UNCHANGED <<data, doc, entityListOffset, count, bytesRead, blockStart>>
  /\ UNCHANGED convVars
  /\ UNCHANGED restVars

\* the end of parseEntityListWithOffset and the placing of reader jr3
EntityListEnd ==
  /\ pc = "entities"
  /\ i >= count
  /\ doc' = [doc EXCEPT !.Entities = entities]
  /\ bytesRead' = 0
  /\ blockStart' = entityListOffset + bytesRead'
  /\ pc' = "blockdefs"
  /\ UNCHANGED <<data, ret, entityListOffset, shortRead>>
  /\ UNCHANGED listVars
  /\ UNCHANGED convVars
  /\ UNCHANGED restVars

\* Parse: the block-definition list; its error is dropped
ParseBlockDefs ==
  /\ pc = "blockdefs"
  /\ \E b \in {parseBlockDefList(data, blockStart, doc.Version)} :
        doc' = [doc EXCEPT !.BlockDefs = IF b.err # NoErr THEN <<>> ELSE b.blockDefs]
  /\ pc' = "names"
  /\ UNCHANGED <<data, ret, entityListOffset, bytesRead, blockStart, shortRead>>
  /\ UNCHANGED listVars
  /\ UNCHANGED convVars
  /\ UNCHANGED restVars

\* Parse: parseLayerNames and the return of the document
ReturnDocument ==
  /\ pc = "names"
  /\ doc' = [doc EXCEPT !.LayerGroups = parseLayerNames(@)]
  /\ ret' = ReturnDoc(doc')
  /\ pc' = "done"
  /\ UNCHANGED <<data, entityListOffset, bytesRead, blockStart, shortRead>>
  /\ UNCHANGED listVars
  /\ UNCHANGED convVars
  /\ UNCHANGED restVars

Next ==
  \/ ValidateSignature
  \/ ParsePrefix
  \/ FindEntityList
  \/ ParseEntity
  \/ EntityListEnd
  \/ ParseBlockDefs
  \/ ReturnDocument

Spec == Init /\ [][Next]_vars

\* Parse is one sequential call: once made it runs until it returns
SpecTerminates == Init /\ [][Next]_vars /\ WF_vars(Next)

\* ------------------------------------------------------------------------
\* Properties of the decoder
\* ------------------------------------------------------------------------

\* C1: an input whose first 8 bytes are not "JwwData." (an input shorter
\* than 8 bytes included) makes Parse return the invalid-signature error and
\* no document.
C1_InvalidSignatureFails ==
  (pc # "signature" /\ (Len(data) < 8 \/ \E k \in 1..8 : data[k] # Signature[k]))
    => (ret.returned /\ ret.nilDoc /\ ret.err = ErrInvalidSignature)

C1_Witness ==
  /\ ret.returned /\ ret.nilDoc /\ ret.err = ErrInvalidSignature
  /\ Len(data) >= 8

\* C2: while a list is decoded the PID counter is 1 + the class definitions
\* read + the instances decoded; null markers do not count.
C2_PIDCounterLaw ==
  ret.err = NoErr => nextPID = 1 + classDefsRead + instancesDecoded

C2_Witness ==
  /\ ret.returned /\ ~ret.nilDoc
  /\ nullsSeen >= 1 /\ classDefsRead >= 2 /\ instancesDecoded >= 2
  /\ nextPID = 5

\* C3: a class-reference tag (neither 0xFFFF nor 0x8000) whose PID
\* tag & 0x7FFF is not bound in the registry makes Parse fail with the error
\* that carries the attempted PID and the known PIDs; the PIDs given to
\* object instances are never bound.
C3_DanglingClassRefFails ==
  /\ (/\ last.tag \notin {"none", "eof"}
      /\ last.classID \notin {65535, 32768}
      /\ (last.classID % 32768) \notin DOMAIN last.regBefore)
       => /\ ret.returned /\ ret.nilDoc
          /\ ret.err.kind = "UnknownClassPID"
          /\ ret.err.pid = last.classID % 32768
          /\ ret.err.have = DOMAIN last.regBefore
  /\ instancePIDs \cap DOMAIN pidToClassName = {}

C3_Witness ==
  /\ ret.returned /\ ret.nilDoc /\ ret.err.kind = "UnknownClassPID"
  /\ ret.err.pid \in instancePIDs
  /\ ret.err.have # {}

\* C4: a read that meets the end of the input while the fixed prefix or an
\* entity record is decoded makes Parse return an error and no document.
C4_ShortReadFails ==
  (pc = "done" /\ shortRead) => (ret.nilDoc /\ ret.err # NoErr)

\* C5: a record whose class name (just defined, or resolved from a class
\* reference) is none of the seven entity classes makes Parse fail with the
\* error that names the class.
C5_UnknownClassFails ==
  (last.selected /\ last.className \notin KnownClasses)
    => /\ ret.returned /\ ret.nilDoc
       /\ ret.err.kind = "UnknownEntityClass"
       /\ ret.err.name = last.className

C5_Witness ==
  /\ ret.returned /\ ret.nilDoc /\ ret.err.kind = "UnknownEntityClass"
  /\ last.tag = "def" /\ last.className = CDataZzz
  /\ instancesDecoded >= 1

\* C6: the block-definition list is decoded from the byte that follows the
\* last byte the top-level entity list consumed.
C6_BlockListFollowsEntityList ==
  pc \in {"blockdefs", "names"} => blockStart = pos

\* the errors of Parse before the scan
\* the first byte after the record count of the entity list
ListStart == entityListOffset + 2

\* the loop of the entity list has used a count for every iteration made
\* and two bytes at least of the input for each of them
StepsBounded ==
  (pc \in {"entities", "blockdefs", "names"} \/ (pc = "done" /\ entityListOffset >= 0 /\ pos > 0)) =>
    /\ i <= count
    /\ count < 65536
    /\ ListStart + 2 * i <= pos
    /\ pos <= Len(data)
    /\ Len(entities) <= i

\* C26: Parse terminates on every finite input: it returns a document or an
\* error after a number of decoding steps bounded by the input length and
\* the record counts read from it; no loop continues without consuming
\* input or a count.
C26_Terminates ==
  /\ []StepsBounded
  /\ <>(pc = "done" /\ ret.returned)
  /\ [][pc = "entities" /\ pc' = "entities" => (i' = i + 1 /\ pos' >= pos + 2)]_vars

\* Parse has returned after a loop of three iterations at least, one of
\* them at a null record
C26_Witness ==
  /\ pc = "done"
  /\ ret.returned
  /\ i >= 3
  /\ nullsSeen >= 1

PrefixContexts ==
  {"reading version", "reading memo", "reading paper size", "reading write layer group"}

\* Parse has run findEntityListOffset
ScanReached ==
  \/ pc \in {"entities", "blockdefs", "names"}
  \/ /\ pc = "done"
     /\ ret.err # ErrInvalidSignature
     /\ (ret.err.ctx = <<>> \/ Head(ret.err.ctx) \notin PrefixContexts)

\* the pattern at offset k: 0xFF 0xFF, the version as a u16, a name
\* length from 8 to 20 and a name of that length that begins with "CData"
PatternAt(k) ==
  /\ k + 6 <= Len(data)
  /\ data[k + 1] = 255 /\ data[k + 2] = 255
  /\ data[k + 3] + 256 * data[k + 4] = doc.Version.lo % 65536
  /\ \E n \in 8..20 :
       /\ n = data[k + 5] + 256 * data[k + 6]
       /\ k + 6 + n <= Len(data)
       /\ \A j \in 1..5 : data[k + 6 + j] = CData[j]

\* the offsets the scan considers that match
ScanMatches == {k \in 100..(Len(data) - 21) : PatternAt(k)}

\* C24: the scan considers the offsets from 100 up to but excluding
\* len - 20 and uses the first that matches (the count is the two bytes
\* before it); without a match Parse fails and returns no document.
C24_ScanBounds ==
  ScanReached =>
    IF ScanMatches = {}
      THEN /\ pc = "done"
           /\ ret.returned /\ ret.nilDoc
           /\ ret.err = IoErr("could not find entity list in file")
      ELSE /\ entityListOffset + 2 \in ScanMatches
           /\ \A k \in ScanMatches : entityListOffset + 2 <= k

\* a class definition at offset 99 is passed over for a later one
C24_Witness ==
  /\ ScanReached
  /\ PatternAt(99)
  /\ entityListOffset + 2 > 100
  /\ entityListOffset + 2 \in ScanMatches

\* ------------------------------------------------------------------------
\* ConvertDocument, step by step, on bounded source documents
\* ------------------------------------------------------------------------

SrcBase(g, l, color, style) ==
  [Group |-> 0, PenStyle |-> style, PenColor |-> color, PenWidth |-> 0,
   Layer |-> l, LayerGroup |-> g, Flag |-> 0]

SrcLine(b) ==
  [type |-> "Line", Base |-> b, StartX |-> F(0), StartY |-> F(0), EndX |-> F(100), EndY |-> F(100)]

SrcArc(b, full, flatness) ==
  [type |-> "Arc", Base |-> b, CenterX |-> F(50), CenterY |-> F(50), Radius |-> F(10),
   StartAngle |-> F(0), ArcAngle |-> HalfPi, TiltAngle |-> F(0), Flatness |-> flatness,
   IsFullCircle |-> full]

SrcPoint(b, tmp) ==
  [type |-> "Point", Base |-> b, X |-> F(25), Y |-> F(75), IsTemporary |-> tmp,
   Code |-> 0, Angle |-> F(0), Scale |-> F(0)]

SrcText(b, sizeY, content) ==
  [type |-> "Text", Base |-> b, StartX |-> F(1), StartY |-> F(2), EndX |-> F(3), EndY |-> F(2),
   TextType |-> 0, SizeX |-> F(3), SizeY |-> sizeY, Spacing |-> F(0), Angle |-> F(45),
   FontName |-> <<>>, Content |-> content]

SrcSolid(b) ==
  [type |-> "Solid", Base |-> b, Point1X |-> F(0), Point1Y |-> F(0), Point4X |-> F(0),
   Point4Y |-> F(1), Point2X |-> F(1), Point2Y |-> F(0), Point3X |-> F(1), Point3Y |-> F(1),
   Color |-> 0]

SrcBlock(b, defNumber) ==
  [type |-> "Block", Base |-> b, RefX |-> F(5), RefY |-> F(6), ScaleX |-> F(1), ScaleY |-> F(2),
   Rotation |-> HalfPi, DefNumber |-> defNumber]

\* bases: in range; in range, last group; group out of range; layer out of range
B0 == SrcBase(0, 0, 1, 1)

B1 == SrcBase(15, 10, 0, 2)

B2 == SrcBase(16, 3, 100, 9)

B3 == SrcBase(2, 300, 9, 200)

EntityPool ==
  {SrcLine(B0), SrcLine(B2),
   SrcArc(B0, TRUE, F(1)), SrcArc(B1, FALSE, F(1)), SrcArc(B0, TRUE, F(2)),
   SrcArc(B3, FALSE, [n |-> 1, d |-> 2]), SrcArc(B1, TRUE, NaN),
   SrcPoint(B0, TRUE), SrcPoint(B1, FALSE), SrcPoint(B2, TRUE),
   SrcText(B0, F(0), <<65>>), SrcText(B2, F(3), <<26085, 65>>),
   SrcSolid(B1),
   SrcBlock(B0, 7), SrcBlock(B3, 9), SrcBlock(B1, 120)}

\* the layer matrix of a decoded document: parseLayerNames has named every
\* group and layer
DecodedLayerGroups ==
  [g \in 0..15 |->
     [State |-> 0, WriteLayer |-> 0, Scale |-> F(0), Protect |-> 0,
      Layers |-> [l \in 0..15 |-> [State |-> 0, Protect |-> 0, Name |-> DefaultLayerName(g, l)]],
      Name |-> DefaultGroupName(g)]]

\* some layers renamed, shown and protected
CustomLayerGroups ==
  [DecodedLayerGroups EXCEPT
     ![0].Layers[0] = [State |-> 2, Protect |-> 1, Name |-> <<87>>],
     ![15].Layers[10] = [State |-> 1, Protect |-> 0, Name |-> <<22721, 65>>]]

\* a document built by hand, no names set
UnnamedLayerGroups ==
  [g \in 0..15 |->
     [State |-> 2, WriteLayer |-> 0, Scale |-> F(1), Protect |-> 0,
      Layers |-> [l \in 0..15 |-> [State |-> 2, Protect |-> 0, Name |-> <<>>]],
      Name |-> <<>>]]

SrcBlockDef(number, name, es) ==
  [Base |-> B0, Number |-> number, IsReferenced |-> TRUE, Name |-> name, Entities |-> es]

DocVariants ==
  {[lgs |-> DecodedLayerGroups, bds |-> <<>>],
   [lgs |-> CustomLayerGroups,
    bds |-> <<SrcBlockDef(7, <<66>>, <<SrcLine(B0), SrcPoint(B0, TRUE), SrcArc(B1, FALSE, F(1))>>)>>],
   [lgs |-> UnnamedLayerGroups,
    bds |-> <<SrcBlockDef(7, <<>>, <<SrcPoint(B2, FALSE)>>), SrcBlockDef(7, <<66>>, <<>>)>>]}

SourceDocs ==
  {[Version |-> 600, Memo |-> <<>>, PaperSize |-> 0, WriteLayerGroup |-> 0,
    LayerGroups |-> v.lgs, Entities |-> es, BlockDefs |-> v.bds] :
     v \in DocVariants, es \in SeqsUpTo(EntityPool, MaxEntities)}

InitConvert ==
  /\ ParseStart(<<>>, "idle")
  /\ src \in SourceDocs
  /\ dxfDoc = EmptyTarget
  /\ cpc = "layers"
  /\ ci = 0
  /\ lastConv = NoConv
  /\ RestIdle

\* ConvertDocument: Layers: convertLayers(doc)
ConvertLayers ==
  /\ cpc = "layers"
  /\ dxfDoc' = [dxfDoc EXCEPT !.Layers = convertLayers(src)]
  /\ cpc' = "entities"
  /\ UNCHANGED <<src, ci, lastConv>>
  /\ UNCHANGED parseVars
  /\ UNCHANGED restVars

\* one iteration of the loop of convertEntities
ConvertEntity ==
  /\ cpc = "entities"
  /\ ci < Len(src.Entities)
  /\ LET e == src.Entities[ci + 1]
         dxfEntity == convertEntity(e, src)
     IN /\ dxfDoc' = IF dxfEntity # Nil
                       THEN [dxfDoc EXCEPT !.Entities = Append(@, dxfEntity)]
                       ELSE dxfDoc
        /\ lastConv' = [has |-> TRUE, src |-> e, out |-> dxfEntity]
  /\ ci' = ci + 1
  /\ UNCHANGED <<src, cpc>>
  /\ UNCHANGED parseVars
  /\ UNCHANGED restVars

\* ConvertDocument: Blocks: convertBlocks(doc), and the return
ConvertBlocks ==
  /\ cpc = "entities"
  /\ ci >= Len(src.Entities)
  /\ dxfDoc' = [dxfDoc EXCEPT !.Blocks = convertBlocks(src)]
  /\ cpc' = "done"
  /\ UNCHANGED <<src, ci, lastConv>>
  /\ UNCHANGED parseVars
  /\ UNCHANGED restVars

NextConvert ==
  \/ ConvertLayers
  \/ ConvertEntity
  \/ ConvertBlocks

SpecConvert == InitConvert /\ [][NextConvert]_vars

\* ------------------------------------------------------------------------
\* Properties of the transformer
\* ------------------------------------------------------------------------

IsTempPoint(e) == e.type = "Point" /\ e.IsTemporary

\* the number of entities among the first n of es that are no temporary point
NonTemp(es, n) == Cardinality({k \in 1..n : ~IsTempPoint(es[k])})

\* C7: the target entities are as many as the source entities that are not
\* temporary points: a temporary point yields nothing, every other entity
\* yields exactly one target entity (top-level list and block lists alike).
C7_EntityCount ==
  /\ Len(dxfDoc.Entities) = NonTemp(src.Entities, ci)
  /\ lastConv.has => (lastConv.out = Nil <=> IsTempPoint(lastConv.src))
  /\ cpc = "done" =>
       /\ Len(dxfDoc.Entities) = NonTemp(src.Entities, Len(src.Entities))
       /\ Len(dxfDoc.Blocks) = Len(src.BlockDefs)
       /\ \A k \in 1..Len(src.BlockDefs) :
            Len(dxfDoc.Blocks[k].Entities)
              = NonTemp(src.BlockDefs[k].Entities, Len(src.BlockDefs[k].Entities))

C7_Witness ==
  /\ cpc = "done"
  /\ Len(src.Entities) = 2 /\ Len(dxfDoc.Entities) = 1
  /\ \E k \in 1..2 : IsTempPoint(src.Entities[k])

\* C8: a source Arc becomes a Circle when full-circle is set and the
\* flatness is 1.0, an Ellipse when the flatness is not 1.0, and an Arc
\* otherwise.
C8_ArcClassification ==
  (lastConv.has /\ lastConv.src.type = "Arc") =>
    LET a == lastConv.src
        flat1 == a.Flatness.d # 0 /\ a.Flatness.n = a.Flatness.d
    IN lastConv.out.type = (IF a.IsFullCircle /\ flat1 THEN "Circle"
                            ELSE IF ~flat1 THEN "Ellipse"
                            ELSE "Arc")

C8_Witness ==
  /\ lastConv.has /\ lastConv.src.type = "Arc"
  /\ lastConv.src.IsFullCircle /\ lastConv.src.Flatness = F(2)
  /\ lastConv.out.type = "Ellipse"
  /\ Len(dxfDoc.Entities) = 2 /\ dxfDoc.Entities[1].type = "Circle"

\* C9: the flattened layer table has 16 x 16 = 256 entries, the entry of
\* (g, l) at place 16 g + l.
C9_LayerTable ==
  cpc \in {"entities", "done"} =>
    /\ Len(dxfDoc.Layers) = 256
    /\ \A g \in 0..15, l \in 0..15 :
         LET n == src.LayerGroups[g].Layers[l].Name
         IN dxfDoc.Layers[16 * g + l + 1].Name
              = (IF n # <<>> THEN n ELSE DefaultLayerName(g, l))

C9_Witness ==
  /\ cpc = "done"
  /\ Len(dxfDoc.Layers) = 256
  /\ dxfDoc.Layers[1].Name = <<87>>
  /\ dxfDoc.Layers[256].Name = <<70, 45, 70>>

UpperHex == (48..57) \cup (65..70)

RECURSIVE HexValue(_)
HexValue(h) ==
  IF h = <<>> THEN 0
  ELSE LET c == h[Len(h)]
       IN 16 * HexValue(SubSeq(h, 1, Len(h) - 1)) + (IF c <= 57 THEN c - 48 ELSE c - 55)

\* name is "G-L": the upper-case hexadecimal numerals of g and l
IsComposite(name, g, l) ==
  \E k \in 2..(Len(name) - 1) :
    /\ name[k] = 45
    /\ \A j \in 1..Len(name) : j # k => name[j] \in UpperHex
    /\ HexValue(SubSeq(name, 1, k - 1)) = g
    /\ HexValue(SubSeq(name, k + 1, Len(name))) = l

TableNames == {dxfDoc.Layers[k].Name : k \in 1..Len(dxfDoc.Layers)}

\* C10: the layer name of every converted entity is the name of an entry of
\* the layer table or, when its layer group or layer is out of range, the
\* "G-L" composite of the two.
C10_LayerNameResolves ==
  LET LayerOK(name, b) ==
        \/ name \in TableNames
        \/ /\ (b.LayerGroup > 15 \/ b.Layer > 15)
           /\ IsComposite(name, b.LayerGroup, b.Layer)
      Kept(es) == SelectSeq(es, LAMBDA e : ~IsTempPoint(e))
  IN /\ (lastConv.has /\ lastConv.out # Nil) =>
          LayerOK(lastConv.out.Layer, lastConv.src.Base)
     /\ \A k \in 1..Len(dxfDoc.Blocks) :
          LET kept == Kept(src.BlockDefs[k].Entities)
          IN /\ Len(dxfDoc.Blocks[k].Entities) = Len(kept)
             /\ \A j \in 1..Len(kept) :
                  LayerOK(dxfDoc.Blocks[k].Entities[j].Layer, kept[j].Base)

C10_Witness ==
  /\ lastConv.has /\ lastConv.out # Nil
  /\ lastConv.src.Base.LayerGroup = 16
  /\ lastConv.out.Layer = <<49, 48, 45, 51>>
  /\ lastConv.out.Layer \notin TableNames

\* the number a sequence of decimal digits writes, -1 if it is no such sequence
RECURSIVE DecimalValue(_)
DecimalValue(ds) ==
  IF ds = <<>> \/ ds[Len(ds)] \notin 48..57 THEN -1
  ELSE IF Len(ds) = 1 THEN ds[1] - 48
  ELSE IF ds[1] = 48 \/ DecimalValue(SubSeq(ds, 1, Len(ds) - 1)) < 0 THEN -1
  ELSE DecimalValue(SubSeq(ds, 1, Len(ds) - 1)) * 10 + ds[Len(ds)] - 48

\* an Ellipse made from the source Arc a: its ratio and major axis are
\* those of the radius R, the ratio f and the tilt t
EllipseOf(e, R, f, t) ==
  /\ e.MinorRatio = f
  /\ e.MajorAxisX = FMul(R, Cos(t))
  /\ e.MajorAxisY = FMul(R, Sin(t))

\* C25: every Ellipse emitted has a minor/major ratio <= 1: a flatness > 1
\* swaps the axes (major radius = radius x flatness, ratio = 1/flatness,
\* tilt + pi/2), otherwise the ratio is the flatness and the major radius
\* the radius.
C25_EllipseRatio ==
  (lastConv.has /\ lastConv.src.type = "Arc" /\ lastConv.out.type = "Ellipse") =>
    LET a == lastConv.src
        e == lastConv.out
    IN /\ FLe(e.MinorRatio, F(1))
       /\ IF FGt(a.Flatness, F(1))
            THEN /\ EllipseOf(e, FMul(a.Radius, a.Flatness), e.MinorRatio, FAdd(a.TiltAngle, HalfPi))
                 /\ e.MinorRatio.n * a.Flatness.n = e.MinorRatio.d * a.Flatness.d
            ELSE EllipseOf(e, a.Radius, a.Flatness, a.TiltAngle)

\* C13: a block reference whose definition number no block definition has
\* becomes an Insert named "BLOCK_" followed by the number in decimal.
C13_MissingBlockName ==
  (/\ lastConv.has /\ lastConv.src.type = "Block"
   /\ \A k \in 1..Len(src.BlockDefs) : src.BlockDefs[k].Number # lastConv.src.DefNumber)
    => /\ lastConv.out.type = "Insert"
       /\ Len(lastConv.out.BlockName) > 6
       /\ SubSeq(lastConv.out.BlockName, 1, 6) = <<66, 76, 79, 67, 75, 95>>
       /\ DecimalValue(SubSeq(lastConv.out.BlockName, 7, Len(lastConv.out.BlockName)))
            = lastConv.src.DefNumber

C13_Witness ==
  /\ lastConv.has /\ lastConv.src.type = "Block" /\ lastConv.src.DefNumber = 120
  /\ Len(src.BlockDefs) = 2
  /\ lastConv.out.BlockName = <<66, 76, 79, 67, 75, 95, 49, 50, 48>>
  /\ dxfDoc.Entities[Len(dxfDoc.Entities)] = lastConv.out

\* C27: each Insert produced for a block reference whose definition number
\* exists in the block-definition table names a block that is present,
\* under exactly that name, in the converted document's block list.
C27_InsertNamesBlock ==
  (/\ cpc = "done"
   /\ lastConv.has /\ lastConv.src.type = "Block"
   /\ \E k \in 1..Len(src.BlockDefs) : src.BlockDefs[k].Number = lastConv.src.DefNumber)
    => /\ lastConv.out.type = "Insert"
       /\ \E j \in 1..Len(dxfDoc.Blocks) : dxfDoc.Blocks[j].Name = lastConv.out.BlockName

\* ------------------------------------------------------------------------
\* The colour table, applied by ConvertDocument and on its own
\* ------------------------------------------------------------------------

PenColors == (0..MaxPenColor) \cup {65535}

\* one source entity of every kind, drawn with pen colour c
ColourPool(c) ==
  LET b == SrcBase(0, 0, c, 1)
  IN {SrcLine(b), SrcArc(b, TRUE, F(1)), SrcArc(b, FALSE, F(1)), SrcArc(b, FALSE, F(2)),
      SrcPoint(b, FALSE), SrcPoint(b, TRUE), SrcText(b, F(3), <<65>>), SrcSolid(b),
      SrcBlock(b, 7)}

\* a document of one entity, which is also the content of its one block
ColourDocs ==
  {[Version |-> 600, Memo |-> <<>>, PaperSize |-> 0, WriteLayerGroup |-> 0,
    LayerGroups |-> DecodedLayerGroups, Entities |-> <<e>>,
    BlockDefs |-> <<SrcBlockDef(7, <<66>>, <<e>>)>>] :
     e \in UNION {ColourPool(c) : c \in PenColors}}

InitColour ==
  /\ ParseStart(<<>>, "idle")
  /\ src \in ColourDocs
  /\ dxfDoc = EmptyTarget
  /\ cpc = "layers"
  /\ ci = 0
  /\ lastConv = NoConv
  /\ aci = <<>>
  /\ WriterIdle
  /\ DocumentIdle
  /\ JwwIdle
  /\ BlockDefsIdle
  /\ TransformIdle

\* the pen colour of the run
RunColour == src.Entities[1].Base.PenColor

\* mapColor applied to the pen colour, then to its own result
MapColor ==
  /\ src # EmptySource
  /\ Len(aci) < 2
  /\ aci' = Append(aci, mapColor(IF aci = <<>> THEN RunColour ELSE aci[Len(aci)]))
  /\ UNCHANGED parseVars
  /\ UNCHANGED convVars
  /\ UNCHANGED <<writerVars, documentVars, jwwVars, bdVars, transformVars>>

NextColour ==
  \/ ConvertLayers
  \/ ConvertEntity
  \/ ConvertBlocks
  \/ MapColor

SpecColour == InitColour /\ [][NextColour]_vars

\* the colour table as the specification gives it
ColourTable(c) ==
  IF c \in 0..9 THEN <<0, 4, 7, 3, 2, 6, 5, 7, 1, 8>>[c + 1]
  ELSE IF c >= 100 THEN c - 100 + 10
  ELSE c

MaxCalls == 2

CustomSource ==
  [Version |-> 600, Memo |-> <<>>, PaperSize |-> 0, WriteLayerGroup |-> 0,
   LayerGroups |-> CustomLayerGroups, Entities |-> <<>>,
   BlockDefs |-> <<SrcBlockDef(7, <<66>>, <<>>)>>]

\* target entities, as ConvertDocument makes them
Target(e) == convertEntity(e, CustomSource)

\* a Text with no rotation and no style, its content a control character,
\* DEL, a letter and a code point above U+FFFF
PlainText ==
  [Target(SrcText(B0, F(3), <<9, 127, 65, 128512>>)) EXCEPT !.Rotation = F(0), !.Style = ""]

\* documents made with NewDocument and AddLayer
BuiltDocs == {NewDocument, AddLayer(NewDocument, <<76>>, 1, "CONTINUOUS")}

WriterDocs ==
  {EmptyTarget,
   [Layers |-> <<convertLayer(CustomSource, 0, 0), convertLayer(CustomSource, 15, 10)>>,
    Entities |-> <<Target(SrcLine(B0)), Target(SrcText(B1, F(3), <<26085, 65>>))>>,
    Blocks |-> <<[Name |-> <<66>>, BaseX |-> F(0), BaseY |-> F(0),
                  Entities |-> <<Target(SrcPoint(B1, FALSE))>>]>>],
   [Layers |-> <<convertLayer(CustomSource, 0, 0)>>,
    Entities |-> <<Target(SrcArc(B0, TRUE, F(1))), Target(SrcArc(B1, FALSE, F(1))),
                   Target(SrcArc(B0, TRUE, F(2))), Target(SrcSolid(B1)),
                   Target(SrcBlock(B0, 7))>>,
    Blocks |-> <<>>],
   [Layers |-> <<>>,
    Entities |-> <<PlainText, Target(SrcPoint(B2, FALSE))>>,
    Blocks |-> <<>>]}
  \cup {[Layers |-> d.Layers, Entities |-> Elems(d.Entities), Blocks |-> d.Blocks]
         : d \in BuiltDocs}

InitWrite ==
  /\ ParseStart(<<>>, "idle")
  /\ ConvIdle
  /\ ColourIdle
  /\ WriterIdle
  /\ DocumentIdle
  /\ JwwIdle
  /\ BlockDefsIdle
  /\ TransformIdle

\* the handle counter of the Writer the running call writes with
CurHandle == IF entry = "ToString" THEN tsHandle ELSE nextHandle

\* a step of WriteDocument: the records go to the output, the Writer of
\* the call keeps the counter
Written(recs, next, to) ==
  /\ out' = out \o recs
  /\ IF entry = "ToString"
       THEN tsHandle' = next /\ UNCHANGED nextHandle
       ELSE nextHandle' = next /\ UNCHANGED tsHandle
  /\ wpc' = to
  /\ UNCHANGED <<wdoc, entry, calls, startHandle>>

\* ToString: a strings.Builder and a new Writer
DxfToString ==
  /\ wpc \in {"idle", "done"}
  /\ calls < MaxCalls
  /\ wdoc' \in WriterDocs
  /\ entry' = "ToString"
  /\ tsHandle' = NewWriter
  /\ startHandle' = NewWriter
  /\ out' = <<>>
  /\ wpc' = "header"
  /\ calls' = calls + 1
  /\ UNCHANGED <<nextHandle, firstOut>>
  /\ UNCHANGED <<parseVars, convVars, colourVars, documentVars, jwwVars, bdVars, transformVars>>

\* WriteDocument called on the Writer that NewWriter returned
WriteDocument ==
  /\ wpc \in {"idle", "done"}
  /\ calls < MaxCalls
  /\ wdoc' \in WriterDocs
  /\ entry' = "WriteDocument"
  /\ startHandle' = nextHandle
  /\ out' = <<>>
  /\ wpc' = "header"
  /\ calls' = calls + 1
  /\ UNCHANGED <<nextHandle, tsHandle, firstOut>>
  /\ UNCHANGED <<parseVars, convVars, colourVars, documentVars, jwwVars, bdVars, transformVars>>

\* the records of the step WriteDocument is at, and the step after it
StepRecords ==
  CASE wpc = "header" -> [recs |-> writeHeader, next |-> CurHandle, to |-> "tables"]
    [] wpc = "tables" -> [recs |-> writeTables(wdoc, CurHandle).recs,
                          next |-> writeTables(wdoc, CurHandle).next, to |-> "blocks"]
    [] wpc = "blocks" -> [recs |-> writeBlocks(wdoc), next |-> CurHandle, to |-> "entities"]
    [] wpc = "entities" -> [recs |-> writeEntities(wdoc), next |-> CurHandle, to |-> "eof"]
    [] wpc = "eof" -> [recs |-> <<GLit(0, "EOF")>>, next |-> CurHandle, to |-> "done"]

WriteHeader ==
  /\ wpc = "header"
  /\ \E st \in {StepRecords} : Written(st.recs, st.next, st.to)
  /\ UNCHANGED firstOut
  /\ UNCHANGED <<parseVars, convVars, colourVars, documentVars, jwwVars, bdVars, transformVars>>

WriteTables ==
  /\ wpc = "tables"
  /\ \E st \in {StepRecords} : Written(st.recs, st.next, st.to)
  /\ UNCHANGED firstOut
  /\ UNCHANGED <<parseVars, convVars, colourVars, documentVars, jwwVars, bdVars, transformVars>>

WriteBlocks ==
  /\ wpc = "blocks"
  /\ \E st \in {StepRecords} : Written(st.recs, st.next, st.to)
  /\ UNCHANGED firstOut
  /\ UNCHANGED <<parseVars, convVars, colourVars, documentVars, jwwVars, bdVars, transformVars>>

WriteEntities ==
  /\ wpc = "entities"
  /\ \E st \in {StepRecords} : Written(st.recs, st.next, st.to)
  /\ UNCHANGED firstOut
  /\ UNCHANGED <<parseVars, convVars, colourVars, documentVars, jwwVars, bdVars, transformVars>>

\* the EOF record and the return without error
WriteEOF ==
  /\ wpc = "eof"
  /\ \E st \in {StepRecords} : Written(st.recs, st.next, st.to)
  /\ firstOut' = IF firstOut.has THEN firstOut
                 ELSE [has |-> TRUE, doc |-> wdoc, out |-> out']
  /\ UNCHANGED <<parseVars, convVars, colourVars, documentVars, jwwVars, bdVars, transformVars>>

\* the counter after n calls of getHandle
RECURSIVE AfterHandles(_, _)
AfterHandles(h, n) == IF n = 0 THEN h ELSE AfterHandles(getHandle(h).next, n - 1)

\* the io.Writer of WriteDocument fails at a record of the step: the records
\* before it are out, its handle (if it has one) is spent, the error is
\* returned; the stream takes no further document
SinkError ==
  /\ entry = "WriteDocument"
  /\ wpc \in {"header", "tables", "blocks", "entities", "eof"}
  /\ \E st \in {StepRecords} :
       \E k \in 1..Len(st.recs) :
          /\ out' = out \o SubSeq(st.recs, 1, k - 1)
          /\ nextHandle' = AfterHandles(nextHandle,
                              Cardinality({j \in 1..k : st.recs[j].code = 5}))
  /\ wpc' = "failed"
  /\ UNCHANGED <<wdoc, entry, tsHandle, calls, startHandle, firstOut>>
  /\ UNCHANGED <<parseVars, convVars, colourVars, documentVars, jwwVars, bdVars, transformVars>>

NextWrite ==
  \/ DxfToString
  \/ WriteDocument
  \/ WriteHeader
  \/ WriteTables
  \/ WriteBlocks
  \/ WriteEntities
  \/ WriteEOF
  \/ SinkError

SpecWrite == InitWrite /\ [][NextWrite]_vars

\* ------------------------------------------------------------------------
\* Properties of the serializer
\* ------------------------------------------------------------------------

\* the positions of recs that satisfy P, in increasing order
Positions(recs, P(_)) ==
  LET idx == {k \in 1..Len(recs) : P(recs[k])}
  IN [j \in 1..Cardinality(idx) |->
        CHOOSE k \in idx : Cardinality({m \in idx : m < k}) = j - 1]

IsMark(r) == r.code = 0 /\ r.lit \in {"SECTION", "ENDSEC", "TABLE", "ENDTAB", "EOF"}

\* the section and table structure of an output: every SECTION and TABLE
\* record with the name that follows it, every ENDSEC, ENDTAB and EOF
Marks(recs) ==
  Only({[j \in 1..Len(at) |->
           IF recs[at[j]].lit \in {"SECTION", "TABLE"}
             THEN <<recs[at[j]].lit,
                    IF at[j] < Len(recs) /\ recs[at[j] + 1].code = 2
                      THEN recs[at[j] + 1].lit ELSE "">>
             ELSE <<recs[at[j]].lit, "">>]
        : at \in {Positions(recs, IsMark)}})

DocumentLayout ==
  <<<<"SECTION", "HEADER">>, <<"ENDSEC", "">>,
    <<"SECTION", "TABLES">>, <<"TABLE", "LTYPE">>, <<"ENDTAB", "">>,
    <<"TABLE", "LAYER">>, <<"ENDTAB", "">>, <<"TABLE", "STYLE">>, <<"ENDTAB", "">>,
    <<"ENDSEC", "">>,
    <<"SECTION", "BLOCKS">>, <<"ENDSEC", "">>,
    <<"SECTION", "ENTITIES">>, <<"ENDSEC", "">>,
    <<"EOF", "">>>>

\* the DXF name of a target entity
TypeName(e) ==
  CASE e.type = "Line" -> "LINE" [] e.type = "Circle" -> "CIRCLE" [] e.type = "Arc" -> "ARC"
    [] e.type = "Ellipse" -> "ELLIPSE" [] e.type = "Point" -> "POINT" [] e.type = "Text" -> "TEXT"
    [] e.type = "Solid" -> "SOLID" [] e.type = "Insert" -> "INSERT"

IsEntityStart(r) ==
  r.code = 0 /\ r.lit \in {"LINE", "CIRCLE", "ARC", "ELLIPSE", "POINT", "TEXT", "SOLID", "INSERT"}

\* the entity names of the ENTITIES section of a complete output, in order
EntitiesSectionNames(recs) ==
  Only({Only({[j \in 1..Len(at) |-> sec[at[j]].lit]
              : at \in {Positions(sec, IsEntityStart)}})
        : sec \in {SubSeq(recs, (CHOOSE k \in 1..(Len(recs) - 1) :
                                   recs[k].lit = "SECTION" /\ recs[k + 1].lit = "ENTITIES") + 2,
                          Len(recs) - 2)}})

\* C14: the output is the HEADER section, the TABLES section with the LTYPE,
\* LAYER and STYLE tables, the BLOCKS section and the ENTITIES section, in
\* this order, each opened by SECTION and closed by ENDSEC, the entities in
\* document order, and EOF is the last record; between the steps of a call
\* that has not failed the output is a prefix of this layout.
C14_DocumentLayout ==
  /\ wpc # "failed" =>
       \E n \in 0..Len(DocumentLayout) : Marks(out) = SubSeq(DocumentLayout, 1, n)
  /\ wpc = "done" =>
       /\ Marks(out) = DocumentLayout
       /\ out[Len(out)] = GLit(0, "EOF")
       /\ EntitiesSectionNames(out) = [j \in 1..Len(wdoc.Entities) |-> TypeName(wdoc.Entities[j])]

C14_Witness ==
  /\ wpc = "done" /\ entry = "WriteDocument"
  /\ Len(wdoc.Entities) = 5 /\ Len(wdoc.Layers) = 1
  /\ Marks(out) = DocumentLayout
  /\ EntitiesSectionNames(out) = <<"CIRCLE", "ARC", "ELLIPSE", "SOLID", "INSERT">>

\* the Text entities a document is written with: those of the blocks, then
\* those of the entity list
RECURSIVE TextsIn(_)
TextsIn(es) ==
  IF es = <<>> THEN <<>>
  ELSE (IF Head(es).type = "Text" THEN <<Head(es)>> ELSE <<>>) \o TextsIn(Tail(es))

RECURSIVE BlockTexts(_)
BlockTexts(blocks) ==
  IF blocks = <<>> THEN <<>> ELSE TextsIn(Head(blocks).Entities) \o BlockTexts(Tail(blocks))

IsTextStart(r) == r.code = 0 /\ r.lit = "TEXT"

\* reading back a value in which \U+ and four hexadecimal digits stand for
\* a code point
RECURSIVE Unescape4(_)
Unescape4(v) ==
  IF v = <<>> THEN <<>>
  ELSE IF /\ Len(v) >= 7
          /\ SubSeq(v, 1, 3) = <<92, 85, 43>>
          /\ \A k \in 4..7 : v[k] \in UpperHex
    THEN <<HexValue(SubSeq(v, 4, 7))>> \o Unescape4(SubSeq(v, 8, Len(v)))
    ELSE <<v[1]>> \o Unescape4(Tail(v))

\* value is str with each character outside printable ASCII rewritten as
\* \U+XXXX, four upper-case hexadecimal digits
EscapedFourDigits(value, str) ==
  /\ \A k \in 1..Len(value) : value[k] >= 32 /\ value[k] <= 126
  /\ Len(value) = Len(str) + 6 * Cardinality({k \in 1..Len(str) : str[k] > 126 \/ str[k] < 32})
  /\ Unescape4(value) = str

\* C15: in the output of every Text entity, each character of the content
\* and of the layer name that is outside printable ASCII is rewritten as
\* \U+XXXX with four upper-case hexadecimal digits.
C15_TextEscaped ==
  wpc = "done" =>
    \E at \in {Positions(out, IsTextStart)} :
    \E texts \in {BlockTexts(wdoc.Blocks) \o TextsIn(wdoc.Entities)} :
      /\ Len(at) = Len(texts)
      /\ \A j \in 1..Len(at) :
           /\ out[at[j] + 1].code = 8
           /\ EscapedFourDigits(out[at[j] + 1].str, texts[j].Layer)
           /\ out[at[j] + 8].code = 1
           /\ EscapedFourDigits(out[at[j] + 8].str, texts[j].Content)

IsHandle(r) == r.code = 5

\* the handles of an output, in the order of emission
Handles(recs) ==
  Only({[j \in 1..Len(at) |-> recs[at[j]].str] : at \in {Positions(recs, IsHandle)}})

IsTableStart(r) == r.code = 0 /\ r.lit = "TABLE"

IsTableRecord(r) == r.code = 0 /\ r.lit \in {"LTYPE", "LAYER", "STYLE"}

\* C16: the handles under group code 5 are upper-case hexadecimal numerals
\* without padding, strictly increasing in the order of emission (so
\* pairwise distinct), and every table and every table record of the TABLES
\* section has one.
C16_Handles ==
  \E hs \in {Handles(out)} :
    /\ \A j \in 1..Len(hs) :
         /\ hs[j] # <<>>
         /\ \A k \in 1..Len(hs[j]) : hs[j][k] \in UpperHex
         /\ hs[j][1] # 48
    /\ \A j \in 1..(Len(hs) - 1) : HexValue(hs[j]) < HexValue(hs[j + 1])
    /\ \A k \in 1..Len(out) :
         /\ (IsTableStart(out[k]) /\ k + 2 <= Len(out)) => out[k + 2].code = 5
         /\ (IsTableRecord(out[k]) /\ k + 1 <= Len(out)) => out[k + 1].code = 5
    /\ wpc = "done" => Len(hs) = 8 + Len(wdoc.Layers)

C16_Witness ==
  /\ wpc = "done" /\ entry = "WriteDocument" /\ startHandle = 9
  /\ Len(wdoc.Layers) = 2
  /\ Handles(out) = <<<<57>>, <<65>>, <<66>>, <<67>>, <<68>>, <<69>>, <<70>>, <<49, 48>>,
                      <<49, 49>>, <<49, 50>>>>

\* C17 as stated: a document is always written as the same records,
\* whichever entry point is used and whatever was written before.
C17_Deterministic ==
  (wpc = "done" /\ firstOut.has /\ wdoc = firstOut.doc) => out = firstOut.out

\* C17, amended: ToString, and WriteDocument on a Writer whose handle
\* counter is still at its initial value, always write a document as the
\* same records; WriteDocument on a Writer that has given out handles
\* writes other handles.
C17_DeterministicFromNewWriter ==
  (wpc = "done" /\ firstOut.has /\ wdoc = firstOut.doc)
    => (out = firstOut.out <=> startHandle = NewWriter)

C17_Witness ==
  /\ wpc = "done" /\ calls = 2 /\ entry = "WriteDocument" /\ startHandle = NewWriter
  /\ Len(wdoc.Entities) = 2 /\ Len(wdoc.Blocks) = 1
  /\ wdoc = firstOut.doc /\ out = firstOut.out

IsLayerRecord(r) == r = GLit(0, "LAYER")

\* the names of the layer records of the LAYER table, in order
LayerTableNames(recs) ==
  Only({[j \in 1..Len(at) |-> recs[at[j] + 2].str] : at \in {Positions(recs, IsLayerRecord)}})

\* the count the LAYER table declares
DeclaredLayerCount(recs) ==
  recs[(CHOOSE k \in 1..(Len(recs) - 3) :
          recs[k] = GLit(0, "TABLE") /\ recs[k + 1] = GLit(2, "LAYER")) + 3].int

\* C28: the LAYER table never contains two layer records with the same
\* name, for any document, and its declared count equals the number of
\* distinct layers written.
C28_LayerNamesDistinct ==
  wpc \in {"blocks", "entities", "eof", "done"} =>
    \E names \in {LayerTableNames(out)} :
      /\ \A a, b \in 1..Len(names) : a # b => names[a] # names[b]
      /\ DeclaredLayerCount(out) = Cardinality({names[j] : j \in 1..Len(names)})

\* ------------------------------------------------------------------------
\* Operations on a Document's entity list
\* ------------------------------------------------------------------------

\* the operations on the document in one run
MaxOps == 4

\* the entities AddEntity and the Add<Shape> methods append: the entity
\* with the number n, of the shape of the method
Shapes == {"Line", "Circle", "Text"}

InitDocument ==
  /\ ParseStart(<<>>, "idle")
  /\ ConvIdle
  /\ ColourIdle
  /\ WriterIdle
  /\ DocumentIdle
  /\ JwwIdle
  /\ BlockDefsIdle
  /\ TransformIdle

\* AddEntity(e), AddLine(...), AddCircle(...), AddText(...)
DocAddEntity ==
  /\ opCount < MaxOps
  /\ \E shape \in Shapes :
       /\ document' = AddEntity(document, [id |-> opCount + 1, type |-> shape])
       /\ lastOp' = [op |-> "AddEntity", index |-> opCount + 1, before |-> Elems(document.Entities)]
  /\ addedIds' = addedIds \cup {opCount + 1}
  /\ opCount' = opCount + 1
  /\ UNCHANGED removedIds
  /\ UNCHANGED <<parseVars, convVars, colourVars, writerVars, jwwVars, bdVars, transformVars>>

\* RemoveEntity(index), for an index in range or not
DocRemoveEntity ==
  /\ opCount < MaxOps
  /\ \E index \in (-1)..(EntityCount(document) + 1) :
       /\ document' = RemoveEntity(document, index)
       /\ lastOp' = [op |-> "RemoveEntity", index |-> index, before |-> Elems(document.Entities)]
       /\ removedIds' = IF index >= 0 /\ index < EntityCount(document)
                          THEN removedIds \cup {document.Entities.arr[index + 1].id}
                          ELSE removedIds
  /\ opCount' = opCount + 1
  /\ UNCHANGED addedIds
  /\ UNCHANGED <<parseVars, convVars, colourVars, writerVars, jwwVars, bdVars, transformVars>>

DocClearEntities ==
  /\ opCount < MaxOps
  /\ document' = ClearEntities(document)
  /\ lastOp' = [op |-> "ClearEntities", index |-> 0, before |-> Elems(document.Entities)]
  /\ removedIds' = addedIds
  /\ opCount' = opCount + 1
  /\ UNCHANGED addedIds
  /\ UNCHANGED <<parseVars, convVars, colourVars, writerVars, jwwVars, bdVars, transformVars>>

NextDocument ==
  \/ DocAddEntity
  \/ DocRemoveEntity
  \/ DocClearEntities

SpecDocument == InitDocument /\ [][NextDocument]_vars

\* C18: the entity list is the added entities in insertion order minus the
\* removed ones; RemoveEntity(i) removes the entity at index i alone when
\* 0 <= i < EntityCount() and changes nothing otherwise; ClearEntities
\* leaves EntityCount() = 0.
C18_EntityList ==
  \E es \in {Elems(document.Entities)} :
    /\ EntityCount(document) = Len(es)
    /\ {es[k].id : k \in 1..Len(es)} = addedIds \ removedIds
    /\ \A j, k \in 1..Len(es) : j < k => es[j].id < es[k].id
    /\ lastOp.op = "AddEntity" =>
         /\ Len(es) = Len(lastOp.before) + 1
         /\ SubSeq(es, 1, Len(es) - 1) = lastOp.before
         /\ es[Len(es)].id = lastOp.index
    /\ lastOp.op = "RemoveEntity" =>
         IF lastOp.index >= 0 /\ lastOp.index < Len(lastOp.before)
           THEN /\ Len(es) = Len(lastOp.before) - 1
                /\ \A k \in 1..Len(es) :
                     es[k] = lastOp.before[IF k <= lastOp.index THEN k ELSE k + 1]
           ELSE es = lastOp.before
    /\ lastOp.op = "ClearEntities" => EntityCount(document) = 0

C18_Witness ==
  /\ lastOp.op = "RemoveEntity" /\ lastOp.index = 1
  /\ Len(lastOp.before) = 3
  /\ EntityCount(document) = 2
  /\ Elems(document.Entities)[1].id = 1 /\ Elems(document.Entities)[2].id = 3

\* ------------------------------------------------------------------------
\* The npm wrapper as a state machine: init() and loadWasm() run from one
\* await to the next, dispose(), parse(), toDxf(), toDxfString() and
\* resetStats() run to completion (Node.js environment)
\* ------------------------------------------------------------------------

\* the init() calls, the dispose() calls and the parse, toDxf and
\* toDxfString calls of one run
MaxInits == 3

MaxDisposes == 1

MaxJwwOps == 2

\* the files passed in: the length of the data and what the WASM function
\* does with it
Files ==
  { [length |-> 16, result |-> "ok"],
    [length |-> 16, result |-> "notok"],
    [length |-> 32, result |-> "throws"] }

ParseOps == {"parse", "toDxf", "toDxfString"}

InitJww ==
  /\ ParseStart(<<>>, "idle")
  /\ ConvIdle
  /\ ColourIdle
  /\ WriterIdle
  /\ DocumentIdle
  /\ JwwIdle
  /\ BlockDefsIdle
  /\ TransformIdle

restOfJww == <<parseVars, convVars, colourVars, writerVars, documentVars, bdVars, transformVars>>

\* an init() call made after the last dispose() has completed successfully
InitCompleted ==
  \E c \in 1..Len(initCalls) :
    initCalls[c].st = "fulfilled" /\ initCalls[c].epoch = epoch

\* a call of init(), up to its first await: it returns at once when
\* initialized, returns the pending promise when there is one, and else
\* starts loadWasm, which runs up to its first await
JwwInit ==
  /\ Len(initCalls) < MaxInits
  /\ IF initialized
       THEN /\ initCalls' = Append(initCalls, [load |-> 0, st |-> "fulfilled", epoch |-> epoch])
            /\ UNCHANGED <<initPromise, goInstance, loads>>
       ELSE IF initPromise # 0
         THEN /\ initCalls' = Append(initCalls, [load |-> initPromise, st |-> "joined", epoch |-> epoch])
              /\ UNCHANGED <<initPromise, goInstance, loads>>
         ELSE /\ loads' = Append(loads, IF goDefined THEN "compiling" ELSE "loadingExec")
              /\ goInstance' = IF goDefined THEN Len(loads) + 1 ELSE goInstance
              /\ initPromise' = Len(loads) + 1
              /\ initCalls' = Append(initCalls, [load |-> Len(loads) + 1, st |-> "awaiting", epoch |-> epoch])
  /\ debugLogs' = IF ~initialized /\ initPromise = 0
                     THEN log(debugOptions, debugLogs, "info") ELSE debugLogs
  /\ UNCHANGED <<debugOptions, setDebugCalls>>
  /\ UNCHANGED <<initialized, wasmInstance, stats, goDefined, wasmFunctions, epoch, jwwOps, failedOps, lastCall>>
  /\ UNCHANGED restOfJww

\* loadWasm after "await this.loadWasmExec()": wasm_exec.js has defined Go
\* and goInstance is set, or the import failed
LoadWasmExec ==
  /\ \E k \in 1..Len(loads) :
       /\ loads[k] = "loadingExec"
       /\ \/ /\ goDefined' = TRUE
             /\ goInstance' = k
             /\ loads' = [loads EXCEPT ![k] = "compiling"]
          \/ /\ loads' = [loads EXCEPT ![k] = "rejected"]
             /\ UNCHANGED <<goDefined, goInstance>>
  /\ UNCHANGED <<initialized, initPromise, wasmInstance, stats, initCalls, wasmFunctions, epoch, jwwOps, failedOps, lastCall>>
  /\ UNCHANGED debugVars
  /\ UNCHANGED restOfJww

\* loadWasm after "await WebAssembly.compile(...)": it reads
\* this.goInstance.importObject, a TypeError when dispose() has cleared
\* goInstance; reading or compiling the file may fail as well
LoadCompile ==
  /\ \E k \in 1..Len(loads) :
       /\ loads[k] = "compiling"
       /\ \/ loads' = [loads EXCEPT ![k] = "rejected"]
          \/ loads' = [loads EXCEPT ![k] = IF goInstance = 0 THEN "rejected" ELSE "instantiating"]
  /\ UNCHANGED <<initialized, initPromise, goInstance, wasmInstance, stats, initCalls, goDefined, wasmFunctions, epoch, jwwOps, failedOps, lastCall>>
  /\ UNCHANGED debugVars
  /\ UNCHANGED restOfJww

\* loadWasm after "await WebAssembly.instantiate(...)": wasmInstance is
\* set and this.goInstance.run() is called, a TypeError when dispose() has
\* cleared goInstance; the instantiation may fail as well
LoadInstantiate ==
  /\ \E k \in 1..Len(loads) :
       /\ loads[k] = "instantiating"
       /\ \/ /\ loads' = [loads EXCEPT ![k] = "rejected"]
             /\ UNCHANGED wasmInstance
          \/ /\ wasmInstance' = k
             /\ loads' = [loads EXCEPT ![k] = IF goInstance = 0 THEN "rejected" ELSE "waiting"]
  /\ UNCHANGED <<initialized, initPromise, goInstance, stats, initCalls, goDefined, wasmFunctions, epoch, jwwOps, failedOps, lastCall>>
  /\ UNCHANGED debugVars
  /\ UNCHANGED restOfJww

\* loadWasm after "await this.waitForWasmFunctions()": the Go program has
\* registered the three functions, or the wait timed out
LoadWaitForWasmFunctions ==
  /\ \E k \in 1..Len(loads) :
       /\ loads[k] = "waiting"
       /\ \/ /\ wasmFunctions' = TRUE
             /\ loads' = [loads EXCEPT ![k] = "resolved"]
          \/ /\ ~wasmFunctions
             /\ loads' = [loads EXCEPT ![k] = "rejected"]
             /\ UNCHANGED wasmFunctions
  /\ UNCHANGED <<initialized, initPromise, goInstance, wasmInstance, stats, initCalls, goDefined, epoch, jwwOps, failedOps, lastCall>>
  /\ UNCHANGED debugVars
  /\ UNCHANGED restOfJww

\* init() after "await this.initPromise": initialized is set, or the catch
\* block clears initPromise and rethrows
InitContinue ==
  /\ \E c \in 1..Len(initCalls) :
       /\ initCalls[c].st = "awaiting"
       /\ loads[initCalls[c].load] \in {"resolved", "rejected"}
       /\ IF loads[initCalls[c].load] = "resolved"
            THEN /\ initialized' = TRUE
                 /\ initCalls' = [initCalls EXCEPT ![c].st = "fulfilled"]
                 /\ UNCHANGED initPromise
            ELSE /\ initPromise' = 0
                 /\ initCalls' = [initCalls EXCEPT ![c].st = "rejected"]
                 /\ UNCHANGED initialized
  /\ UNCHANGED <<goInstance, wasmInstance, stats, loads, goDefined, wasmFunctions, epoch, jwwOps, failedOps, lastCall>>
  /\ \E c \in 1..Len(initCalls) :
       /\ initCalls[c].st # initCalls'[c].st
       /\ debugLogs' = log(debugOptions, debugLogs,
                           IF initCalls'[c].st = "fulfilled" THEN "info" ELSE "error")
  /\ UNCHANGED <<debugOptions, setDebugCalls>>
  /\ UNCHANGED restOfJww

\* an init() call that returned the pending promise settles as the load does
InitJoined ==
  /\ \E c \in 1..Len(initCalls) :
       /\ initCalls[c].st = "joined"
       /\ loads[initCalls[c].load] \in {"resolved", "rejected"}
       /\ initCalls' = [initCalls EXCEPT ![c].st =
                          IF loads[initCalls[c].load] = "resolved" THEN "fulfilled" ELSE "rejected"]
  /\ UNCHANGED <<initialized, initPromise, goInstance, wasmInstance, stats, loads, goDefined, wasmFunctions, epoch, jwwOps, failedOps, lastCall>>
  /\ UNCHANGED debugVars
  /\ UNCHANGED restOfJww

\* dispose()
JwwDispose ==
  /\ epoch < MaxDisposes
  /\ goInstance' = 0
  /\ wasmInstance' = 0
  /\ initialized' = FALSE
  /\ initPromise' = 0
  /\ stats' = NewStats
  /\ epoch' = epoch + 1
  /\ failedOps' = 0
  /\ UNCHANGED <<loads, initCalls, goDefined, wasmFunctions, jwwOps, lastCall>>
  /\ debugLogs' = <<>>
  /\ UNCHANGED <<debugOptions, setDebugCalls>>
  /\ UNCHANGED restOfJww

\* the call r of the operation op, recorded
Called(op, r) ==
  /\ stats' = r.stats
  /\ jwwOps' = jwwOps + 1
  /\ failedOps' = failedOps + (IF r.thrown # "none" THEN 1 ELSE 0)
  /\ lastCall' = [op |-> op, thrown |-> r.thrown, initCompleted |-> InitCompleted,
                  counted |-> r.stats.errorCount - stats.errorCount]
  /\ UNCHANGED <<initialized, initPromise, goInstance, wasmInstance, loads, initCalls, goDefined, wasmFunctions, epoch>>
  /\ debugLogs' = logAll(debugOptions, debugLogs, r.logged)
  /\ UNCHANGED <<debugOptions, setDebugCalls>>
  /\ UNCHANGED restOfJww

\* parse(data, options), with options.signal aborted or not
JwwParse ==
  /\ jwwOps < MaxJwwOps
  /\ \E file \in Files, aborted \in BOOLEAN :
       \E r \in {parse(stats, initialized, file, aborted)} : Called("parse", r)

\* toDxf(data)
JwwToDxf ==
  /\ jwwOps < MaxJwwOps
  /\ \E file \in Files :
       \E r \in {toDxf(stats, initialized, file)} : Called("toDxf", r)

\* toDxfString(data)
JwwToDxfString ==
  /\ jwwOps < MaxJwwOps
  /\ \E file \in Files :
       \E r \in {toDxfString(stats, initialized, file)} : Called("toDxfString", r)

\* resetStats()
JwwResetStats ==
  /\ stats' = NewStats
  /\ failedOps' = 0
  /\ UNCHANGED <<initialized, initPromise, goInstance, wasmInstance, loads, initCalls, goDefined, wasmFunctions, epoch, jwwOps, lastCall>>
  /\ debugLogs' = log(debugOptions, debugLogs, "debug")
  /\ UNCHANGED <<debugOptions, setDebugCalls>>
  /\ UNCHANGED restOfJww

NextJww ==
  \/ JwwInit
  \/ LoadWasmExec
  \/ LoadCompile
  \/ LoadInstantiate
  \/ LoadWaitForWasmFunctions
  \/ InitContinue
  \/ InitJoined
  \/ JwwDispose
  \/ JwwParse
  \/ JwwToDxf
  \/ JwwToDxfString
  \/ JwwResetStats

SpecJww == InitJww /\ [][NextJww]_vars

\* isInitialized()
isInitialized == initialized

\* C19: parse, toDxf and toDxfString throw NotInitializedError unless an
\* init() call has completed successfully, and after dispose() the parser
\* is uninitialized until an init() call made after it has completed.
C19_NotInitializedUntilInit ==
  /\ isInitialized => InitCompleted
  /\ (lastCall.op \in ParseOps /\ ~lastCall.initCompleted) => lastCall.thrown = "NotInitializedError"

\* C20: errorCount is the number of parse, toDxf and toDxfString calls
\* that failed since the statistics were last reset.
C20_ErrorCount ==
  stats.errorCount = failedOps

\* the loads in progress: loadWasm calls that have neither resolved nor
\* rejected
LoadsInProgress == {k \in 1..Len(loads) : loads[k] \notin {"resolved", "rejected"}}

\* C30: at most one WASM load is in progress at any time under every
\* interleaving of init() and dispose() calls: an init() call made while a
\* load is pending or after one has succeeded starts no new load; only
\* after a failed load does a later init() start a new one.
C30_OneLoadInProgress ==
  /\ [](Cardinality(LoadsInProgress) <= 1)
  /\ [][Len(loads') > Len(loads) =>
          /\ LoadsInProgress = {}
          /\ \A k \in 1..Len(loads) : loads[k] = "rejected"]_vars

\* ------------------------------------------------------------------------
\* The debug log of an initialized JwwParser
\* ------------------------------------------------------------------------

\* the setDebug() calls of one run
MaxSetDebugCalls == 3

\* the arguments of setDebug: true, false and option objects
SetDebugArgs ==
  { [boolean |-> TRUE, enabled |-> "true", logLevel |-> "unset", maxLogEntries |-> -1],
    [boolean |-> TRUE, enabled |-> "false", logLevel |-> "unset", maxLogEntries |-> -1],
    [boolean |-> FALSE, enabled |-> "true", logLevel |-> "unset", maxLogEntries |-> 3],
    [boolean |-> FALSE, enabled |-> "unset", logLevel |-> "unset", maxLogEntries |-> 1],
    [boolean |-> FALSE, enabled |-> "unset", logLevel |-> "debug", maxLogEntries |-> 2],
    [boolean |-> FALSE, enabled |-> "unset", logLevel |-> "error", maxLogEntries |-> -1] }

\* a parser whose init() has completed
InitDebug ==
  /\ ParseStart(<<>>, "idle")
  /\ ConvIdle
  /\ ColourIdle
  /\ WriterIdle
  /\ DocumentIdle
  /\ BlockDefsIdle
  /\ TransformIdle
  /\ initialized = TRUE
  /\ initPromise = 1
  /\ goInstance = 1
  /\ wasmInstance = 1
  /\ stats = NewStats
  /\ loads = <<"resolved">>
  /\ initCalls = <<[load |-> 1, st |-> "fulfilled", epoch |-> 0]>>
  /\ goDefined = TRUE
  /\ wasmFunctions = TRUE
  /\ epoch = 0
  /\ jwwOps = 0
  /\ failedOps = 0
  /\ lastCall = NoCall
  /\ debugOptions = NewDebugOptions
  /\ debugLogs = <<>>
  /\ setDebugCalls = 0

\* setDebug(options): the options are set, then the change is logged
SetDebug ==
  /\ setDebugCalls < MaxSetDebugCalls
  /\ \E arg \in SetDebugArgs :
       \E options \in {setDebugOptions(debugOptions, arg)} :
         /\ debugOptions' = options
         /\ debugLogs' = log(options, debugLogs, "info")
  /\ setDebugCalls' = setDebugCalls + 1
  /\ UNCHANGED <<initialized, initPromise, goInstance, wasmInstance, stats, loads, initCalls,
                 goDefined, wasmFunctions, epoch, jwwOps, failedOps, lastCall>>
  /\ UNCHANGED restOfJww

\* clearDebugLogs()
ClearDebugLogs ==
  /\ debugLogs' = <<>>
  /\ UNCHANGED <<debugOptions, setDebugCalls>>
  /\ UNCHANGED <<initialized, initPromise, goInstance, wasmInstance, stats, loads, initCalls,
                 goDefined, wasmFunctions, epoch, jwwOps, failedOps, lastCall>>
  /\ UNCHANGED restOfJww

NextDebug ==
  \/ SetDebug
  \/ ClearDebugLogs
  \/ JwwParse
  \/ JwwToDxf
  \/ JwwToDxfString
  \/ JwwResetStats

SpecDebug == InitDebug /\ [][NextDebug]_vars

\* the configured maxLogEntries, 1000 when not configured
ConfiguredMaxLogEntries ==
  IF debugOptions.maxLogEntries # 0 THEN debugOptions.maxLogEntries
                                    ELSE DefaultMaxLogEntries

\* C21: the number of stored debug log entries never exceeds the
\* configured maxLogEntries.
C21_LogBounded ==
  Len(debugLogs) <= ConfiguredMaxLogEntries

\* ------------------------------------------------------------------------
\* parseBlockDefList on generated block-definition lists
\* ------------------------------------------------------------------------

\* the records of one generated list
MaxBlockDefs == 2

CDataList == CData \o <<76, 105, 115, 116>>

\* the nested entity lists: empty, one line with its class definition, one
\* line by a reference to PID 1, a point with its class definition and a
\* second point by reference
GenNested(v, n) ==
  CASE n = 1 -> U16(0)
    [] n = 2 -> U16(1) \o GenDef(v, CDataSen)
    [] n = 3 -> U16(1) \o GenRef(v, 1, CDataSen)
    [] n = 4 -> U16(2) \o GenDef(v, CDataTen) \o GenRef(v, 1, CDataTen)

\* the members of a block definition: base, number, referenced flag,
\* CTime, name "B" and the nested list
GenBlockDefBody(v, n) ==
  GenBase(v, 1, 1) \o U32(n) \o U32(1) \o Zeros(4) \o <<1, 66>> \o GenNested(v, n)

BlockDefKinds ==
  {[tag |-> "null", nested |-> 1]}
  \cup [tag : {"def", "ref1", "ref5"}, nested : 1..4]

GenBlockDef(v, k) ==
  CASE k.tag = "null" -> <<0, 128>>
    [] k.tag = "def" ->
         <<255, 255>> \o U16(v) \o U16(Len(CDataList)) \o CDataList \o GenBlockDefBody(v, k.nested)
    [] k.tag = "ref1" -> U16(32768 + 1) \o GenBlockDefBody(v, k.nested)
    [] k.tag = "ref5" -> U16(32768 + 5) \o GenBlockDefBody(v, k.nested)

RECURSIVE GenBlockDefs(_, _)
GenBlockDefs(v, ks) ==
  IF ks = <<>> THEN <<>> ELSE GenBlockDef(v, Head(ks)) \o GenBlockDefs(v, Tail(ks))

\* a list with its count, a list whose count is one more than its records,
\* and a count above 10000
BlockDefInputs(v) ==
  {U32(Len(ks)) \o GenBlockDefs(v, ks) : ks \in SeqsUpTo(BlockDefKinds, MaxBlockDefs)}
  \cup {U32(Len(ks) + 1) \o GenBlockDefs(v, ks) : ks \in SeqsUpTo(BlockDefKinds, 1)}
  \cup {<<17, 39, 0, 0>>, <<0, 0>>}

InitBlockDefs ==
  /\ ParseStart(<<>>, "idle")
  /\ ConvIdle
  /\ ColourIdle
  /\ WriterIdle
  /\ DocumentIdle
  /\ JwwIdle
  /\ TransformIdle
  /\ \E v \in Versions :
       /\ bdData \in BlockDefInputs(v)
       /\ bdVersion = [lo |-> v, hi |-> 0]
  /\ bdPc = "count"
  /\ bdPos = 0
  /\ bdCount = 0
  /\ bdI = 0
  /\ classMap = <<>>
  /\ nextID = 1
  /\ blockDefs = <<>>
  /\ bdLast = NoBlockDef

restOfBlockDefs == <<parseVars, convVars, colourVars, writerVars, documentVars, jwwVars, transformVars>>

\* parseBlockDefList up to its loop: the count is read; an unreadable
\* count and a count above 10000 end the call
ReadBlockDefCount ==
  /\ bdPc = "count"
  /\ \E c \in {ReadDWORD(bdData, bdPos)} :
       IF ~c.ok \/ DwGT(c.v, 10000)
         THEN /\ bdPc' = "done"
              /\ UNCHANGED <<bdPos, bdCount>>
         ELSE /\ bdPc' = "loop"
              /\ bdPos' = c.p
              /\ bdCount' = c.v.lo
  /\ UNCHANGED <<bdData, bdVersion, bdI, classMap, nextID, blockDefs, bdLast>>
  /\ UNCHANGED restOfBlockDefs

\* one iteration of the loop: parseBlockDefWithTracking; an error ends
\* the call with the definitions decoded so far
ParseBlockDef ==
  /\ bdPc = "loop"
  /\ bdI < bdCount
  /\ \E r \in {parseBlockDefWithTracking(bdData, bdPos, bdVersion, classMap, nextID)} :
       /\ bdLast' = [tag |-> IF ReadWORD(bdData, bdPos).ok THEN ReadWORD(bdData, bdPos).v ELSE -1,
                     p |-> bdPos, nextID |-> nextID, classMap |-> classMap,
                     bd |-> r.bd, err |-> r.err]
       /\ classMap' = r.classMap
       /\ IF r.err # NoErr
            THEN /\ bdPc' = "done"
                 /\ UNCHANGED <<bdPos, bdI, nextID, blockDefs>>
            ELSE /\ nextID' = r.nextID
                 /\ blockDefs' = IF r.bd # Nil THEN Append(blockDefs, r.bd) ELSE blockDefs
                 /\ bdPos' = r.p
                 /\ bdI' = bdI + 1
                 /\ UNCHANGED bdPc
  /\ UNCHANGED <<bdData, bdVersion, bdCount>>
  /\ UNCHANGED restOfBlockDefs

\* the loop is over: blockDefs is returned
ReturnBlockDefs ==
  /\ bdPc = "loop"
  /\ bdI >= bdCount
  /\ bdPc' = "done"
  /\ UNCHANGED <<bdData, bdVersion, bdPos, bdCount, bdI, classMap, nextID, blockDefs, bdLast>>
  /\ UNCHANGED restOfBlockDefs

NextBlockDefs ==
  \/ ReadBlockDefCount
  \/ ParseBlockDef
  \/ ReturnBlockDefs

SpecBlockDefs == InitBlockDefs /\ [][NextBlockDefs]_vars

\* where the nested entity list of the record decoded last begins
NestedAt ==
  Only({ReadCString(bdData, base.p + 12).p
        : base \in {parseEntityBase(bdData,
                      IF bdLast.tag = 65535
                        THEN bdLast.p + 6 + ReadWORD(bdData, bdLast.p + 4).v
                        ELSE bdLast.p + 2,
                      bdVersion)}})

\* the entities of a list decoded on its own: registry empty, counter 1
DecodedAlone(q) ==
  Only({IF ~countWord.ok THEN <<>>
        ELSE Only({IF r.err # NoErr THEN <<>> ELSE r.entities
                   : r \in {EntityLoop(bdData, countWord.p, bdVersion, <<>>, 1, 0, countWord.v, <<>>)}})
        : countWord \in {ReadWORD(bdData, q)}})

\* the first record of the list at q is a class reference
StartsWithReference(q) ==
  /\ ReadWORD(bdData, q).ok /\ ReadWORD(bdData, q).v > 0
  /\ ReadWORD(bdData, q + 2).ok
  /\ ReadWORD(bdData, q + 2).v \notin {65535, 32768}

\* C22: every nested entity list is decoded with a registry of its own,
\* empty at the start with next-PID 1: its entities are those of the list
\* decoded alone, a list that begins with a class reference finds no class
\* whatever the lists before it bound, and no class a nested list defines
\* is bound in the registry of the block-definition list.
C22_OwnRegistry ==
  /\ bdLast.bd # Nil =>
       /\ bdLast.bd.Entities = DecodedAlone(NestedAt)
       /\ StartsWithReference(NestedAt) => bdLast.bd.Entities = <<>>
  /\ \A k \in DOMAIN classMap : classMap[k] = CDataList

C22_Witness ==
  /\ Len(blockDefs) = 2
  /\ Len(blockDefs[1].Entities) = 1
  /\ bdLast.bd # Nil
  /\ StartsWithReference(NestedAt)
  /\ blockDefs[2].Entities = <<>>

\* C23: a block-definition record follows the protocol of entity records:
\* 0xFFFF binds the next PID to the class name and advances the counter, a
\* class reference is resolved in the registry and fails when unknown,
\* 0x8000 contributes nothing and does not advance, and the counter
\* advances once after each decoded definition.
C23_BlockDefProtocol ==
  /\ (bdLast.tag = 65535 /\ bdLast.err = NoErr) =>
       /\ bdLast.nextID \in DOMAIN classMap
       /\ classMap[bdLast.nextID] = CDataList
  /\ bdLast.tag = 32768 =>
       /\ bdLast.bd = Nil
       /\ bdLast.err = NoErr
       /\ nextID = bdLast.nextID
       /\ classMap = bdLast.classMap
  /\ (bdLast.tag \notin {-1, 65535, 32768} /\ (bdLast.tag % 32768) \notin DOMAIN bdLast.classMap) =>
       bdLast.err # NoErr
  /\ (bdLast.bd # Nil /\ bdLast.err = NoErr) =>
       nextID = bdLast.nextID + (IF bdLast.tag = 65535 THEN 1 ELSE 0) + 1


\* ------------------------------------------------------------------------
\* The transformations, called on target entities and on their results
\* ------------------------------------------------------------------------

MaxTransforms == 2

\* one entity of every variant, as ConvertDocument makes them
TransformPool ==
  {Target(SrcLine(B1)), Target(SrcArc(B1, TRUE, F(1))), Target(SrcArc(B1, FALSE, F(1))),
   Target(SrcArc(B1, TRUE, F(2))), Target(SrcPoint(B1, FALSE)),
   Target(SrcText(B1, F(3), <<65>>)), Target(SrcSolid(B1)), Target(SrcBlock(B1, 7))}

Deltas == {F(0), F(3)}

Angles == {F(90), F(180)}

Factors == {F(2), [n |-> 1, d |-> 2]}

Centres == {F(0), F(1)}

InitTransform ==
  /\ ParseStart(<<>>, "idle")
  /\ ConvIdle
  /\ ColourIdle
  /\ WriterIdle
  /\ DocumentIdle
  /\ JwwIdle
  /\ BlockDefsIdle
  /\ trReceiver \in TransformPool
  /\ trBefore = Nil
  /\ trResult = Nil
  /\ trMethod = "none"
  /\ trCount = 0

restOfTransform ==
  <<parseVars, convVars, colourVars, writerVars, documentVars, jwwVars, bdVars>>

\* the entities a method can be called on: the given one and the result of
\* the call before
Receivers == {trReceiver, trResult} \ {Nil}

\* the method returns a new entity; it assigns to no field of its receiver
Returned(method, e, r) ==
  /\ trBefore' = e
  /\ trReceiver' = e
  /\ trResult' = r
  /\ trMethod' = method
  /\ trCount' = trCount + 1
  /\ UNCHANGED restOfTransform

TransformTranslate ==
  /\ trCount < MaxTransforms
  /\ \E e \in Receivers : \E dx, dy \in Deltas :
       Returned("Translate", e, Translate(e, dx, dy))

TransformRotate ==
  /\ trCount < MaxTransforms
  /\ \E e \in Receivers : \E angleDeg \in Angles :
     \E c \in (IF e.type \in Centred THEN Centres ELSE {F(0)}) :
       /\ e.type \in Rotatable
       /\ Returned("Rotate", e, Rotate(e, angleDeg, c, F(0)))

TransformScale ==
  /\ trCount < MaxTransforms
  /\ \E e \in Receivers : \E factor \in Factors :
     \E c \in (IF e.type \in Centred THEN Centres ELSE {F(0)}) :
       /\ e.type \in Scalable
       /\ Returned("Scale", e, Scale(e, factor, c, F(0)))

NextTransform ==
  \/ TransformTranslate
  \/ TransformRotate
  \/ TransformScale

SpecTransform == InitTransform /\ [][NextTransform]_vars

\* C29: Translate, Rotate and Scale return a new entity and leave the
\* receiver unmodified; the result differs from the receiver only in the
\* transformed geometric fields: layer, colour and line type are carried
\* over unchanged for every entity variant.
C29_TransformFrame ==
  trMethod # "none" =>
    /\ trReceiver = trBefore
    /\ trResult.type = trBefore.type
    /\ trResult.Layer = trBefore.Layer
    /\ trResult.Color = trBefore.Color
    /\ trResult.LineType = trBefore.LineType
    /\ trBefore.type = "Text" =>
         trResult.Content = trBefore.Content /\ trResult.Style = trBefore.Style
    /\ trBefore.type = "Insert" => trResult.BlockName = trBefore.BlockName

====
